---- MODULE Spec2Model ----
(***************************************************************************)
(* flowfunc: the run lifecycle.                                            *)
(*                                                                         *)
(*   RunStateTracker          src/flowfunc/run/state_tracker.py            *)
(*   Summary                  src/flowfunc/run/summary_model.py            *)
(*   InputResolver            src/flowfunc/run/input_resolver.py           *)
(*   OutputPersister          src/flowfunc/run/output_persister.py         *)
(*   PipelineBuilder          src/flowfunc/pipeline/builder.py             *)
(*   resolve_inputs,                                                       *)
(*   resolve_output_name,                                                  *)
(*   resolve_mapspec          src/flowfunc/composition/step.py             *)
(*   step option resolvers    src/flowfunc/pipeline/resolvers.py           *)
(*   generate_unique_id       src/flowfunc/workflow_definition/utils.py    *)
(*   RunEnvironmentManager    src/flowfunc/run/environment.py              *)
(*   WorkflowRunCoordinator   src/flowfunc/run/coordinator.py              *)
(*                                                                         *)
(* The specifications, over one set of variables:                          *)
(*   SpecTracker  a RunStateTracker driven by arbitrary call sequences     *)
(*   SpecResolve  InputResolver.resolve applied to bounded inputs          *)
(*   SpecPersist  OutputPersister.persist applied to bounded inputs        *)
(*   SpecInputs   resolve_inputs applied to a step of a workflow           *)
(*   SpecMapspec  resolve_output_name, then resolve_mapspec, on a step     *)
(*   SpecBuild    one call of PipelineBuilder.build                        *)
(*   SpecRuns     runs started by two processes sharing a runs directory   *)
(*   SpecResources  resolve_resources applied to bounded Resources models  *)
(*   SpecChain    the resolver chain of one step over a heap of dicts      *)
(*   Spec         one call of WorkflowRunCoordinator.execute_workflow      *)
(***************************************************************************)
EXTENDS Integers, Sequences, FiniteSets, TLC

VARIABLES
    \* ---- RunStateTracker
    summary_data,      \* RunStateTracker._summary_data: None or a Summary
    now,               \* the last value datetime.now(UTC) returned
    call,              \* the last tracker method called, with its arguments
    raised,            \* what that call raised ("none" when it returned)
    started,           \* history: start_run has been called on this tracker
    completed,         \* history: complete_run has returned on the current summary
    prev,              \* history: _summary_data before the last tracker call
    \* ---- InputResolver.resolve (one application)
    rin,               \* the arguments of resolve
    rout,              \* its outcome
    \* ---- OutputPersister.persist (one application)
    pin,               \* the arguments of persist, and what the filesystem and
                       \* the serializers will answer
    pout,              \* its outcome
    \* ---- PipelineBuilder.build (one call)
    bwf,               \* the workflow_model handed to build
    bpc,               \* the position in build
    idx,               \* the index of the step the loop of build is at
    funcs,             \* local funcs: the steps a PipeFunc was created for
    chains,            \* history: the indices of the steps whose option
                       \* resolvers were run, in order
    pkw_ran,           \* history: the pipeline option resolvers were run
    bout,              \* what build gave its caller
    \* ---- composition.step.resolve_inputs (one application)
    iin,               \* the step, its workflow's step names, the options
    iout,              \* its outcome
    \* ---- composition.step.resolve_mapspec (one application)
    msin,              \* the options and the step
    msout,             \* its outcome
    \* ---- WorkflowRunCoordinator.execute_workflow (one call)
    pc,                \* the position in execute_workflow
    args,              \* input_file_path (with what the file holds) and
                       \* input_data of the call
    workflow_model,    \* local workflow_model (NoModel while unbound)
    summary,           \* local `summary`: "None" or "ref" (the tracker's object)
    raw_user_inputs,   \* local raw_user_inputs
    resolved_inputs,   \* local resolved_inputs
    manifest,          \* local persisted_outputs_manifest
    exc,               \* the exception in flight (NoExc when none)
    failed_stage,      \* history: the stage that raised ("none" when none did)
    invoked,           \* history: the stages invoked, in order
    save_log,          \* history: the calls of SummaryPersister.save, each with
                       \* the summary it was handed and what it raised
    disk,              \* summary.json in the run directory (None when absent)
    outcome,           \* what execute_workflow gave its caller
    \* ---- two runs of one workflow, each in its own coordinator
    wall,              \* the second datetime.now() is in
    rpc,               \* the position of each run
    run_ids,           \* state_tracker.run_id of each run ("" before it is made)
    run_dirs,          \* run_dir of each run ("" before setup_run_directories)
    run_names,         \* custom_run_name of each run ("" for None)
    wf_name,           \* metadata.name of the workflow both runs execute
    fs,                \* the directories that exist under the runs directory
    \* ---- pipeline.resolvers.resolve_resources (one application)
    resin,             \* the workflow's default_resources, step.resources
    resout,            \* its outcome
    \* ---- PipelineBuilder._create_pipe_func_from_step and the pipeline
    \* ---- option resolvers, on the objects of the definition
    heap,              \* the dict objects: those of the step and those made
                       \* while its options are resolved
    sdef,              \* the step and the workflow: their fields, the dict
                       \* fields as references into heap
    final_options,     \* local final_options
    pipeline_kwargs,   \* local pipeline_kwargs of build
    cpc,               \* the position in the chain
    cout               \* what was raised ("none" when nothing was)

tracker_vars == <<summary_data, now, call, raised, started, completed, prev>>
resolve_vars == <<rin, rout>>
coord_vars   == <<pc, args, workflow_model, summary, raw_user_inputs,
                  resolved_inputs, manifest, exc, failed_stage, invoked,
                  save_log, disk, outcome>>
persist_vars == <<pin, pout>>
\* the variables of the single-component specifications other than resolve
build_vars == <<bwf, bpc, idx, funcs, chains, pkw_ran, bout>>
step_vars == <<iin, iout, msin, msout>>
\* the variables of the specifications of concurrent runs
runs_vars == <<wall, rpc, run_ids, run_dirs, run_names, wf_name, fs>>
resources_vars == <<resin, resout>>
chain_vars == <<heap, sdef, final_options, pipeline_kwargs, cpc, cout>>
ext_vars == <<runs_vars, resources_vars, chain_vars>>
component_vars == <<persist_vars, build_vars, step_vars, ext_vars>>
base_vars == <<tracker_vars, resolve_vars, persist_vars, build_vars, step_vars,
               coord_vars>>
vars == <<tracker_vars, resolve_vars, component_vars, coord_vars>>

(***************************************************************************)
(* Bounds                                                                  *)
(***************************************************************************)
MaxTime == 2           \* datetime.now(UTC) ranges over 0..MaxTime
MaxSteps == 3          \* a workflow handed to build has at most MaxSteps steps
MaxWall == 2           \* datetime.now() ranges over the seconds 0..MaxWall

(***************************************************************************)
(* Values                                                                  *)
(***************************************************************************)
None == [none |-> TRUE]          \* Python's None, where a record may stand
\* An optional scalar is a sequence of length 0 (None) or 1 (the value)
Some(x) == <<x>>
NoneTime == << >>                \* end_time: datetime | None = None
NoneDuration == << >>            \* duration_seconds returning None
NoneMsg == "<None>"              \* error_message: str | None = None

PENDING == "pending"
RUNNING == "running"
SUCCESS == "success"
FAILED  == "failed"
Status  == {PENDING, RUNNING, SUCCESS, FAILED}
\* the statuses complete_run is called with
Terminal == {SUCCESS, FAILED}

Names == {"x", "y"}
EmptyDict == [k \in {} |-> 0]
\* the dicts the tracker's update_* calls are driven with
TrackerDicts == {EmptyDict, [k \in {"x"} |-> "user"]}
Messages == {NoneMsg, "", "boom"}

\* Python truthiness of a str | None
TruthyStr(m) == m # NoneMsg /\ m # ""
\* Python truthiness of a datetime | None: every datetime is truthy
TruthyTime(t) == t # NoneTime

(***************************************************************************)
(* Summary (summary_model.py)                                              *)
(***************************************************************************)
\* Summary(run_id, workflow_name, workflow_file, run_dir, status, start_time)
\* with the remaining fields at their defaults
Summary(status, start_time) ==
    [status            |-> status,
     start_time        |-> start_time,
     end_time          |-> NoneTime,
     user_inputs       |-> EmptyDict,
     resolved_inputs   |-> EmptyDict,
     persisted_outputs |-> EmptyDict,
     error_message     |-> NoneMsg]

duration_seconds_swapped(s) ==
    IF TruthyTime(s.start_time) /\ TruthyTime(s.end_time)
    THEN Some(s.start_time[1] - s.end_time[1])
    ELSE NoneDuration

duration_seconds(s) ==
    IF TruthyTime(s.start_time) /\ TruthyTime(s.end_time)
    THEN Some(s.end_time[1] - s.start_time[1])
    ELSE NoneDuration

(***************************************************************************)
(* RunStateTracker (state_tracker.py): the methods as functions of the     *)
(* tracker's summary                                                       *)
(***************************************************************************)
TrackerInit_eager == Summary(PENDING, Some(0))
\* __init__: self._summary_data = None
TrackerInit == None

\* start_run: the Summary it assigns to self._summary_data
StartRunSummary(t) == Summary(RUNNING, Some(t))

\* get_summary: raises ValueError when no run was started
get_summary_raises(s) == s = None

SetUserInputs_guarded(s, v) ==
    IF s.status = RUNNING THEN [s EXCEPT !.user_inputs = v] ELSE s
SetUserInputs(s, v) == [s EXCEPT !.user_inputs = v]
SetResolvedInputs(s, v) == [s EXCEPT !.resolved_inputs = v]
SetPersistedOutputs(s, v) == [s EXCEPT !.persisted_outputs = v]

CompleteRunSummary_guarded(s, status, error_message, t) ==
    IF s.status # RUNNING THEN s
    ELSE [s EXCEPT !.status = status,
                   !.end_time = Some(t),
                   !.error_message = IF TruthyStr(error_message)
                                     THEN error_message ELSE @]
CompleteRunSummary_drops_message(s, status, error_message, t) ==
    [s EXCEPT !.status = status, !.end_time = Some(t)]
CompleteRunSummary_keeps_end_time(s, status, error_message, t) ==
    [s EXCEPT !.status = status,
              !.error_message = IF TruthyStr(error_message)
                                THEN error_message ELSE @]
\* complete_run: the summary after the call
CompleteRunSummary(s, status, error_message, t) ==
    [s EXCEPT !.status = status,
              !.end_time = Some(t),
              !.error_message = IF TruthyStr(error_message)
                                THEN error_message ELSE @]

(***************************************************************************)
(* InputResolver.resolve (input_resolver.py)                               *)
(*                                                                         *)
(* workflow_model.spec.inputs maps a name to an InputItem or to a str      *)
(* (schema.py: dict[str, InputItem | str]); an InputItem's value is Any.   *)
(*   [kind |-> "item", value |-> v]   InputItem(value=v), v a scalar       *)
(*   [kind |-> "item_dict"]           InputItem(value={...})               *)
(*   [kind |-> "str"]                 the shorthand: a plain str           *)
(***************************************************************************)
NoScope == ""                    \* options.scope None (or empty): falsy
Scopes == {NoScope, "s"}
\* f"{workflow_scope}.{name}" if workflow_scope else name
ScopedName(scope, name) == IF scope # NoScope THEN scope \o "." \o name ELSE name
Keys == Names \cup {ScopedName("s", n) : n \in Names}

DefaultValue == "default"        \* the value every scalar default carries
UserValue == "user"              \* the value every user input carries
ItemSpecs == {[kind |-> "item", value |-> DefaultValue],
              [kind |-> "item_dict", value |-> "{...}"],
              [kind |-> "str", value |-> "str"]}

\* step 1, lines 43-47: `spec.value` on a str, and `.model_dump()` on a dict,
\* raise AttributeError
DefaultsRaise(inputs) ==
    \E n \in DOMAIN inputs : inputs[n].kind \in {"item_dict", "str"}

\* step 1: resolved[scoped_name] = value.model_dump()
AppliedDefaults(scope, inputs) ==
    [k \in {ScopedName(scope, n) : n \in DOMAIN inputs} |->
        LET n == CHOOSE m \in DOMAIN inputs : ScopedName(scope, m) = k
        IN  inputs[n].value]

\* step 2, lines 53-57: resolved[name] = value for every user input
Merged_defaults_win(d, u) ==
    [k \in DOMAIN d \cup DOMAIN u |-> IF k \in DOMAIN d THEN d[k] ELSE u[k]]
Merged(d, u) ==
    [k \in DOMAIN d \cup DOMAIN u |-> IF k \in DOMAIN u THEN u[k] ELSE d[k]]

\* step 3, line 60: set(pipeline_required_inputs) - set(resolved.keys())
MissingInputs(required, resolved) == required \ DOMAIN resolved

\* step 4, lines 67-69: only the inputs the pipeline expects
Filtered(resolved, pipeline_inputs) ==
    [k \in DOMAIN resolved \cap pipeline_inputs |-> resolved[k]]

\* resolve(user_inputs, workflow_model, pipeline_inputs, pipeline_required_inputs)
resolve(user_inputs, model, pipeline_inputs, required) ==
    IF DefaultsRaise(model.inputs)
    THEN [kind |-> "AttributeError", missing |-> {}, final |-> EmptyDict]
    ELSE LET resolved == Merged(AppliedDefaults(model.scope, model.inputs), user_inputs)
             missing  == MissingInputs(required, resolved)
         IN  IF missing # {}
             THEN [kind |-> "InputResolverError", missing |-> missing,
                   final |-> EmptyDict]
             ELSE [kind |-> "ok", missing |-> {},
                   final |-> Filtered(resolved, pipeline_inputs)]

\* the workflow models resolve is applied to
WorkflowModels ==
    {[scope |-> sc, inputs |-> i] :
        sc \in Scopes, i \in UNION {[d -> ItemSpecs] : d \in SUBSET Names}}
\* user inputs: any keys, each with the user's value
UserInputs == UNION {[d -> {UserValue}] : d \in SUBSET Keys}
\* pipeline.info(): required_inputs is a subset of inputs
PipelineInfos ==
    UNION {{[inputs |-> i, required_inputs |-> r] : r \in SUBSET i} : i \in SUBSET Keys}

(***************************************************************************)
(* OutputPersister.persist (run/output_persister.py), the persister the    *)
(* coordinator calls; ArtifactPersister.persist (run/artifact_persister.py)*)
(* is the same procedure over spec.artifacts.                              *)
(*                                                                         *)
(* spec.outputs is a dict name -> path: here the sequence of its names in  *)
(* insertion order, the order the loop visits them in.  `results` is the   *)
(* set of keys of the result set.  dump[name] is what creating the parent  *)
(* directory and serializing that output does when attempted; dir is the   *)
(* state of the base output directory.                                     *)
(***************************************************************************)
ArtifactNames == {"a", "b"}
ResultKeys == ArtifactNames \cup {ScopedName("s", n) : n \in ArtifactNames}
DumpOutcomes == {"ok", "OutputPersisterError", "OSError"}
DirStates == {"exists", "created", "OSError"}
\* str(target_file_path)
TargetPath(name) == "outputs/" \o name \o ".json"

Put(d, k, v) == [x \in DOMAIN d \cup {k} |-> IF x = k THEN v ELSE d[x]]

NoPersistOut == [raised |-> "none", attempted |-> <<>>, manifest |-> EmptyDict]

\* lines 62-114, the body of the loop for one declared output: skip it when
\* its key is not in the results; else attempt it, and enter it in the
\* manifest when nothing raised; what raised is logged, never re-raised
PersistOne_reraises(acc, name, scope, results, dump) ==
    IF ScopedName(scope, name) \notin results THEN acc
    ELSE IF dump[name] = "ok"
         THEN [acc EXCEPT !.attempted = Append(@, name),
                          !.manifest = Put(@, name, TargetPath(name))]
         ELSE [acc EXCEPT !.attempted = Append(@, name), !.raised = "OSError"]
PersistOne(acc, name, scope, results, dump) ==
    IF ScopedName(scope, name) \notin results THEN acc
    ELSE IF dump[name] = "ok"
         THEN [acc EXCEPT !.attempted = Append(@, name),
                          !.manifest = Put(@, name, TargetPath(name))]
         ELSE [acc EXCEPT !.attempted = Append(@, name)]

\* line 62: for declared_output_name, defined_path_spec in declared_outputs.items()
\* (an exception leaving the body would end the loop)
RECURSIVE PersistLoop(_, _, _, _, _, _)
PersistLoop(acc, declared, i, scope, results, dump) ==
    IF i > Len(declared) \/ acc.raised # "none" THEN acc
    ELSE PersistLoop(PersistOne(acc, declared[i], scope, results, dump),
                     declared, i + 1, scope, results, dump)

\* persist(results, workflow_model, output_dir)
persist(declared, scope, results, dump, dir) ==
    IF Len(declared) = 0 THEN NoPersistOut                       \* lines 32-37
    ELSE IF dir = "OSError"                                      \* lines 39-49
         THEN [NoPersistOut EXCEPT !.raised = "OutputPersisterError"]
         ELSE PersistLoop(NoPersistOut, declared, 1, scope, results, dump)

\* the declared outputs: every duplicate-free sequence of names
DeclaredOutputs ==
    {<<>>} \cup {<<n>> : n \in ArtifactNames}
           \cup {<<n, m>> : <<n, m>> \in {p \in ArtifactNames \X ArtifactNames : p[1] # p[2]}}
PersistInputs ==
    [declared : DeclaredOutputs, scope : Scopes, results : SUBSET ResultKeys,
     dump : [ArtifactNames -> DumpOutcomes], dir : DirStates]

(***************************************************************************)
(* composition.step.resolve_inputs (composition/step.py, lines 118-199).   *)
(*                                                                         *)
(* A dict is the sequence of its items [k, v] in insertion order.  An      *)
(* entry of step.params or step.consumes is                                *)
(*   [kind |-> "literal"]           a value that is no Jinja template      *)
(*   [kind |-> "global", ref]       "{{ params.<ref> }}"                   *)
(*   [kind |-> "interp", ref]       "path/{{ params.<ref> }}"              *)
(*   [kind |-> "step", ref]         "{{ steps.<ref>.produces.out }}"       *)
(* The rendering context is handed in by the caller of the chain.          *)
(***************************************************************************)
Item(k, v) == [k |-> k, v |-> v]
DictKeys(d) == {d[i].k : i \in 1..Len(d)}
\* d[k] = v: the value is replaced where the key is, else the item is appended
DictSet(d, k, v) ==
    IF k \in DictKeys(d)
    THEN [i \in 1..Len(d) |-> IF d[i].k = k THEN Item(k, v) ELSE d[i]]
    ELSE Append(d, Item(k, v))
\* {**a, **b}
RECURSIVE DictMerge(_, _)
DictMerge(a, b) ==
    IF Len(b) = 0 THEN a ELSE DictMerge(DictSet(a, b[1].k, b[1].v), Tail(b))

RefNames == {"one", "two", "ghost"}
Entries ==
    {[kind |-> "literal", ref |-> "lit"], [kind |-> "global", ref |-> "x"],
     [kind |-> "interp", ref |-> "x"]}
        \cup {[kind |-> "step", ref |-> n] : n \in RefNames}

\* workflow_definition/utils.py, lines 27-29 and 32-53
is_jinja_template(e) == e.kind # "literal"
is_direct_jinja_reference(e) == e.kind \in {"global", "step"}

\* the context the templates are rendered in: the workflow's parameters and
\* one entry per step of the workflow, whatever its position
RenderingContext(step_names) == [params |-> {"x"}, steps |-> step_names]

\* line 27: jinja2.Environment(undefined=jinja2.StrictUndefined): rendering
\* a reference the context does not define raises UndefinedError
RenderRaises(e, ctx) ==
    IF e.kind = "step" THEN e.ref \notin ctx.steps ELSE e.ref \notin ctx.params
\* template.render(rendering_context)
Render(e) ==
    CASE e.kind = "step"   -> e.ref \o "_out"
      [] e.kind = "interp" -> "path/" \o e.ref
      [] OTHER             -> e.ref

NoInputsAcc == [raised |-> "none", renames |-> <<>>, defaults |-> <<>>]

\* lines 138-161, the body of the loop over step.params
ParamsEntry(acc, name, e, ctx) ==
    IF ~is_jinja_template(e)
    THEN [acc EXCEPT !.defaults = DictSet(@, name, e.ref)]
    ELSE IF RenderRaises(e, ctx)
         THEN [acc EXCEPT !.raised = "PipelineBuildError"]
         ELSE [acc EXCEPT !.renames = DictSet(@, name, Render(e))]

\* lines 163-189, the body of the loop over step.consumes
ConsumesEntry_unchecked(acc, name, e, ctx) ==
    IF ~is_jinja_template(e)
    THEN [acc EXCEPT !.defaults = DictSet(@, name, e.ref)]
    ELSE IF is_direct_jinja_reference(e)
         THEN [acc EXCEPT !.renames = DictSet(@, name, Render(e))]
         ELSE [acc EXCEPT !.renames = DictSet(@, name, Render(e)),
                          !.defaults = DictSet(@, name, e.ref)]
ConsumesEntry(acc, name, e, ctx) ==
    IF ~is_jinja_template(e)
    THEN [acc EXCEPT !.defaults = DictSet(@, name, e.ref)]
    ELSE IF RenderRaises(e, ctx)
         THEN [acc EXCEPT !.raised = "PipelineBuildError"]
         ELSE IF is_direct_jinja_reference(e)
              THEN [acc EXCEPT !.renames = DictSet(@, name, Render(e))]
              ELSE [acc EXCEPT !.renames = DictSet(@, name, Render(e)),
                               !.defaults = DictSet(@, name, e.ref)]

\* the two loops: an exception leaving the body ends resolve_inputs
RECURSIVE ParamsLoop(_, _, _)
ParamsLoop(acc, params, ctx) ==
    IF Len(params) = 0 \/ acc.raised # "none" THEN acc
    ELSE ParamsLoop(ParamsEntry(acc, params[1].k, params[1].v, ctx), Tail(params), ctx)
RECURSIVE ConsumesLoop(_, _, _)
ConsumesLoop(acc, consumes, ctx) ==
    IF Len(consumes) = 0 \/ acc.raised # "none" THEN acc
    ELSE ConsumesLoop(ConsumesEntry(acc, consumes[1].k, consumes[1].v, ctx),
                      Tail(consumes), ctx)

\* resolve_inputs(options, step, rendering_context)
resolve_inputs(options, step, ctx) ==
    IF Len(step.consumes) = 0 /\ Len(step.params) = 0                \* lines 132-133
    THEN [raised |-> "none", renames |-> options.renames,
          defaults |-> options.defaults]
    ELSE LET new == ConsumesLoop(ParamsLoop(NoInputsAcc, step.params, ctx),
                                 step.consumes, ctx)
         IN  IF new.raised # "none" THEN new
             ELSE [raised |-> "none",                                \* lines 191-199
                   renames |-> DictMerge(options.renames, new.renames),
                   defaults |-> DictMerge(options.defaults, new.defaults)]

\* the dicts of at most two items over the given keys
Dicts1(keys, values) == {<<Item(k, v)>> : k \in keys, v \in values}
Dicts2(keys, values) ==
    {d1 \o d2 : <<d1, d2>> \in {p \in Dicts1(keys, values) \X Dicts1(keys, values) :
                                    p[1][1].k # p[2][1].k}}
ConsumesDicts == {<<>>} \cup Dicts1({"data", "extra"}, Entries)
                        \cup Dicts2({"data", "extra"}, Entries)
ParamsDicts == {<<>>} \cup Dicts1({"p"}, Entries)
SeedDicts == {<<>>, <<Item("data", "seed")>>}
SeedDefaults == {<<>>, <<Item("extra", "kept")>>}
StepNameLists == {<<"one">>, <<"two">>, <<"one", "two">>, <<"two", "one">>}
\* the step at index `at` of a workflow with the steps step_names
InputsInputs ==
    {a \in [step_names : StepNameLists, at : {1, 2}, consumes : ConsumesDicts,
            params : ParamsDicts, seed : SeedDicts, seed_defaults : SeedDefaults] :
         a.at <= Len(a.step_names)}

(***************************************************************************)
(* composition.step.resolve_mapspec (composition/step.py, lines 274-357).  *)
(* options.renames is the dict argument -> source name, options.defaults   *)
(* the dict of the constants (here its keys), options.output_name the list *)
(* of output names (a single str is the list of that one name, lines       *)
(* 302-306); options.mapspec "" stands for None.  In the resolver chain    *)
(* (ALL, lines 361-370) resolve_output_name (lines 36-47) runs before      *)
(* resolve_mapspec and sets options.output_name; an unset output_name or   *)
(* step.produces is the empty list.                                        *)
(***************************************************************************)
MaxIterables == 19     \* options.renames holds at most MaxIterables items

\* line 300: list(string.ascii_lowercase[8:])
indices == <<"i", "j", "k", "l", "m", "n", "o", "p", "q", "r", "s", "t", "u",
             "v", "w", "x", "y", "z">>
\* the map modes resolve_mapspec tells apart (lines 287, 308-346)
MapModes == {"none", "broadcast", "zip", "aggregate"}

\* sep.join(parts)
RECURSIVE Join(_, _)
Join(parts, sep) ==
    IF Len(parts) = 0 THEN ""
    ELSE IF Len(parts) = 1 THEN parts[1]
    ELSE parts[1] \o sep \o Join(Tail(parts), sep)
\* f"{name}[{index}]"
Indexed(name, index) == name \o "[" \o index \o "]"

NoMapspecOut == [raised |-> "none", mapspec |-> "", input_parts |-> <<>>,
                 output_indices |-> <<>>, output_parts |-> <<>>]

\* line 316: index = indices[i], i counting the iterables from 0
BroadcastIndex_shared(k) == indices[1]
BroadcastIndex(k) == indices[k]

\* lines 309-322: case MapMode.BROADCAST
Broadcast(sources, output_names) ==
    IF Len(sources) > Len(indices)                       \* lines 312-315
    THEN [NoMapspecOut EXCEPT !.raised = "PipelineBuildError"]
    ELSE LET output_indices == [k \in 1..Len(sources) |-> BroadcastIndex(k)]
             output_index_str == Join(output_indices, ",")
         IN  [raised |-> "none", mapspec |-> "",
              input_parts |-> [k \in 1..Len(sources) |->
                                  Indexed(sources[k], BroadcastIndex(k))],
              output_indices |-> output_indices,
              output_parts |-> [j \in 1..Len(output_names) |->
                                   Indexed(output_names[j], output_index_str)]]

\* lines 324-333: case MapMode.ZIP
Zip_rejects_multiple(sources, output_names) ==
    IF Len(sources) > 1
    THEN [NoMapspecOut EXCEPT !.raised = "PipelineBuildError"]
    ELSE [raised |-> "none", mapspec |-> "",
          input_parts |-> [k \in 1..Len(sources) |-> Indexed(sources[k], indices[1])],
          output_indices |-> <<indices[1]>>,
          output_parts |-> [j \in 1..Len(output_names) |->
                               Indexed(output_names[j], indices[1])]]
Zip(sources, output_names) ==
    [raised |-> "none", mapspec |-> "",
     input_parts |-> [k \in 1..Len(sources) |-> Indexed(sources[k], indices[1])],
     output_indices |-> <<indices[1]>>,
     output_parts |-> [j \in 1..Len(output_names) |->
                          Indexed(output_names[j], indices[1])]]

\* lines 335-343: case MapMode.AGGREGATE
Aggregate_accepts_multiple(sources, output_names) ==
    [raised |-> "none", mapspec |-> "",
     input_parts |-> [k \in 1..Len(sources) |-> Indexed(sources[k], indices[1])],
     output_indices |-> <<>>,
     output_parts |-> output_names]
Aggregate(sources, output_names) ==
    IF Len(sources) > 1
    THEN [NoMapspecOut EXCEPT !.raised = "PipelineBuildError"]
    ELSE [raised |-> "none", mapspec |-> "",
          input_parts |-> [k \in 1..Len(sources) |-> Indexed(sources[k], indices[1])],
          output_indices |-> <<>>,
          output_parts |-> output_names]

\* resolve_output_name(options, step): the output_name of the options it
\* returns, or the error it raises
resolve_output_name(options, step) ==
    IF options.output_name # <<>>                                    \* lines 38-39
    THEN [raised |-> "none", output_name |-> options.output_name]
    ELSE IF step.produces # <<>>                                     \* lines 41-42
    THEN [raised |-> "none", output_name |-> step.produces]
    ELSE IF step.name # ""                                           \* lines 43-44
    THEN [raised |-> "none", output_name |-> <<step.name>>]
    ELSE [raised |-> "PipelineBuildError", output_name |-> <<>>]     \* lines 45-46

\* line 281: if options.mapspec
ExplicitMapspec_ignored(options) == FALSE
ExplicitMapspec(options) == options.mapspec # ""

\* resolve_mapspec(options, step)
resolve_mapspec(options, step) ==
    IF ExplicitMapspec(options)                                      \* lines 281-285
    THEN [NoMapspecOut EXCEPT !.mapspec = options.mapspec]
    ELSE IF step.map_mode = "none" THEN NoMapspecOut                 \* lines 287-288
    ELSE LET iterable_inputs == options.renames
             sources == [k \in 1..Len(iterable_inputs) |-> iterable_inputs[k].v]
             IsConstant(c) == c \notin DictKeys(iterable_inputs)
             constant_inputs == SelectSeq(options.defaults, IsConstant)
             parts == CASE step.map_mode = "broadcast" ->
                               Broadcast(sources, options.output_name)
                        [] step.map_mode = "zip" ->
                               Zip(sources, options.output_name)
                        [] step.map_mode = "aggregate" ->
                               Aggregate(sources, options.output_name)
         IN  IF Len(iterable_inputs) = 0 THEN NoMapspecOut           \* lines 294-298
             ELSE IF parts.raised # "none" THEN parts
             ELSE [parts EXCEPT !.mapspec =                          \* lines 348-350
                       Join(parts.input_parts \o constant_inputs, ", ")
                           \o " -> " \o Join(parts.output_parts, ", ")]

\* options.renames with n items: argument a<k> renamed to source s<k>
Renames(n) == [k \in 1..n |-> Item("a" \o ToString(k), "s" \o ToString(k))]
MapspecInputs ==
    [n : 0..MaxIterables,
     defaults : {<<>>, <<"c">>, <<"a1", "c", "d">>},
     output_name : {<<>>, <<"out">>},
     produces : {<<>>, <<"o1", "o2">>},
     name : {"", "step"},
     mapspec : {"", "x[i] -> y[i]"},
     map_mode : MapModes]

(***************************************************************************)
(* Run ids and run directories: generate_unique_id                         *)
(* (workflow_definition/utils.py, lines 18-23), RunStateTracker.__init__   *)
(* (run/state_tracker.py, lines 24-29) and                                 *)
(* RunEnvironmentManager.setup_run_directories (run/environment.py, lines  *)
(* 35-68).  A run is one execute_workflow call in its own coordinator.     *)
(***************************************************************************)
Procs == {"run1", "run2"}
\* uuid4().hex[:6]: two of the 16^6 values it ranges over
Suffixes == {"0a1b2c", "ffffff"}
\* datetime.now().strftime("%Y%m%d_%H%M%S"): one value per second
Timestamp(t) == "20260101_00000" \o ToString(t)
CustomRunNames == {"", "nightly"}
RunWorkflowNames == {"", "flow", "My Flow"}
\* the runs directory (environment.py, line 33)
runs_base_dir == ".flowfunc_runs"

\* generate_unique_id(run_name), called in second t, uuid4().hex[:6] being u.
\* With a run_name, sanitize_string (lines 7-15) is called and raises
\* NameError at line 14: the module uses re without importing it.
generate_unique_id(run_name, t, u) ==
    IF run_name = ""
    THEN [raised |-> "none", id |-> "run" \o "_" \o Timestamp(t) \o "_" \o u]
    ELSE [raised |-> "NameError", id |-> ""]

\* environment.py, line 53: workflow_name.replace(" ", "_").lower()
safe_workflow_name(workflow_name) ==
    CASE workflow_name = "My Flow" -> "my_flow"
      [] workflow_name = "flow" -> "flow"
      [] OTHER -> workflow_name

\* environment.py, lines 54-55
RunDir(workflow_name, run_id) ==
    runs_base_dir \o "/" \o safe_workflow_name(workflow_name) \o "/" \o run_id
OutputDir(run_dir) == run_dir \o "/" \o "outputs"

NoRuns == [p \in Procs |-> ""]
RunsIdle ==
    /\ wall = 0
    /\ rpc = [p \in Procs |-> "idle"]
    /\ run_ids = NoRuns
    /\ run_dirs = NoRuns
    /\ run_names = NoRuns
    /\ wf_name = ""
    /\ fs = {}

(***************************************************************************)
(* pipeline.resolvers.resolve_resources (pipeline/resolvers.py, lines      *)
(* 121-159) on Resources models (workflow_definition/schema.py, lines      *)
(* 45-65).  A Resources is its cpus and memory (the empty sequence for     *)
(* None) and its advanced_options (an ordered dict; None and {} are both   *)
(* the empty dict, line 148 treating them alike); a dict of resources is   *)
(* an ordered dict of items.                                               *)
(***************************************************************************)
reserved_keys == {"cpus", "memory"}
AdvancedOptions ==
    {<<>>, <<Item("gpus", "1")>>, <<Item("cpus", "16")>>,
     <<Item("memory", "64Gi")>>, <<Item("gpus", "1"), Item("cpus", "16")>>}

\* Resources.prevent_reserved_keys_in_advanced_options(v), schema.py lines
\* 52-65: what the function raises when it is called
prevent_reserved_keys_in_advanced_options(v) ==
    IF DictKeys(v) \cap reserved_keys # {} THEN "ValueError" ELSE "none"

\* schema.py, lines 50-51: @classmethod is applied over
\* @field_validator("advanced_options"), so the class attribute is a
\* classmethod object and not the validator's descriptor proxy: pydantic
\* collects no validator for the field and never calls the function
ValidatorRegistered == FALSE

\* what constructing Resources(cpus, memory, advanced_options) raises
ResourcesRaises(r) ==
    IF ValidatorRegistered
    THEN prevent_reserved_keys_in_advanced_options(r.advanced_options)
    ELSE "none"

\* the Resources models a loaded workflow can hold
ResourcesModels ==
    {r \in [cpus : {<<>>, <<"2">>, <<"4">>}, memory : {<<>>, <<"8Gi">>},
             advanced_options : AdvancedOptions] : ResourcesRaises(r) = "none"}

\* Resources.model_dump(exclude_none=True)
model_dump_exclude_none(r) ==
    (IF r.cpus = <<>> THEN <<>> ELSE <<Item("cpus", r.cpus[1])>>)
        \o (IF r.memory = <<>> THEN <<>> ELSE <<Item("memory", r.memory[1])>>)
        \o (IF r.advanced_options = <<>> THEN <<>>
            ELSE <<Item("advanced_options", r.advanced_options)>>)

\* d.get(k), None when the key is absent
DictGet(d, k) ==
    IF k \in DictKeys(d) THEN (CHOOSE i \in 1..Len(d) : d[i].k = k) ELSE 0
HasKey(d, k) == k \in DictKeys(d)
DictValue(d, k) == d[DictGet(d, k)].v
\* d without the key k (d.pop(k, ...))
DictPop(d, k) == SelectSeq(d, LAMBDA it : it.k # k)

\* resolve_resources(options, step, workflow): options["resources"] as it
\* leaves it; the empty dict when the key is not set (lines 158-159)
resolve_resources(global_resources_model, step_resources_model) ==
    LET global_res_dict == IF global_resources_model = None THEN <<>>   \* 135-139
                           ELSE model_dump_exclude_none(global_resources_model)
        step_res_dict == IF step_resources_model = None THEN <<>>       \* 140-144
                         ELSE model_dump_exclude_none(step_resources_model)
        merged_resources == DictMerge(global_res_dict, step_res_dict)   \* 146
        advanced_opts_dict ==                                           \* 148
            IF HasKey(merged_resources, "advanced_options")
            THEN DictValue(merged_resources, "advanced_options")
            ELSE <<>>
        merged == DictPop(merged_resources, "advanced_options")
        named == (IF HasKey(merged, "cpus")                             \* 150-154
                  THEN <<Item("cpus", DictValue(merged, "cpus"))>> ELSE <<>>)
                 \o (IF HasKey(merged, "memory")
                     THEN <<Item("memory", DictValue(merged, "memory"))>> ELSE <<>>)
    IN  [raised |-> "none",
         resources |-> DictMerge(named, advanced_opts_dict)]            \* 156

NoResourcesOut == [raised |-> "none", resources |-> <<>>]
ResourcesIdle ==
    /\ resin = [workflow |-> None, step |-> None]
    /\ resout = [done |-> FALSE, out |-> NoResourcesOut]

(***************************************************************************)
(* The option chain of one step on the objects of the definition:          *)
(* PipelineBuilder._create_pipe_func_from_step (pipeline/builder.py, lines *)
(* 130-179), the default step resolvers and the pipeline option resolvers  *)
(* (pipeline/resolvers.py).  A dict is an object on the heap and a field   *)
(* holding a dict holds its reference ("None" when the field is None), so  *)
(* that a write through one reference shows through every other.          *)
(***************************************************************************)
\* step.name and step.func: "none" (not specified), "path" (an importable
\* dotted path) or "bad_path" (one import_callable fails on)
StepNames == {"one", "two"}
StepFuncs == {"none", "path", "bad_path"}

\* the dicts of the StepDefinition
DefinitionIds == {"options.defaults", "options.renames", "parameters"}
\* the dicts made while the options are resolved
LocalIds == {"dump.defaults", "dump.renames", "new.defaults", "new.renames"}
ObjIds == DefinitionIds \cup LocalIds

\* step.inputs: str references, an InputItem model, a number
InputValues ==
    {[kind |-> "global", ref |-> "x"], [kind |-> "global", ref |-> "a"],
     [kind |-> "step", ref |-> "one.out"], [kind |-> "item", ref |-> "x"],
     [kind |-> "int", ref |-> "3"]}
InputDicts == {<<>>} \cup {<<Item("a", v)>> : v \in InputValues}
OneResources == [cpus |-> <<"2">>, memory |-> <<>>, advanced_options |-> <<>>]

\* the steps and their workflow: the fields the resolvers read
ChainDefinitions ==
    [name : {"one"}, func : StepFuncs, default_module : {"", "m"},
     inputs : InputDicts, scope : {<<>>, <<"sc">>},
     defaults : {"None", "options.defaults"},
     renames : {"None", "options.renames"},
     parameters : {"parameters"},
     resources : {None, OneResources},
     default_resources : {None, OneResources},
     workflow_scope : {<<>>, <<"wsc">>}]
\* the heaps at the call: the dicts of the definition, no local dict yet
ChainHeaps ==
    {h \in [ObjIds -> {<<>>, <<Item("p", "old")>>, <<Item("a", "seed")>>,
                        <<Item("p", "v"), Item("q", "w")>>}] :
        /\ \A id \in LocalIds : h[id] = <<>>
        /\ h["options.defaults"] \in {<<>>, <<Item("p", "old")>>}
        /\ h["options.renames"] \in {<<>>, <<Item("a", "seed")>>}
        /\ h["parameters"] \in {<<>>, <<Item("p", "v"), Item("q", "w")>>}}

NoFinalOptions == [func |-> "unset", renames |-> "None", defaults |-> "None",
                   resources |-> <<>>, scope |-> <<>>]
NoDefinition == [name |-> "one", func |-> "none", default_module |-> "",
                 inputs |-> <<>>, scope |-> <<>>, defaults |-> "None",
                 renames |-> "None", parameters |-> "parameters",
                 resources |-> None, default_resources |-> None,
                 workflow_scope |-> <<>>]
ChainIdle ==
    /\ heap = [id \in ObjIds |-> <<>>]
    /\ sdef = NoDefinition
    /\ final_options = NoFinalOptions
    /\ pipeline_kwargs = <<>>
    /\ cpc = "idle"
    /\ cout = "none"

\* BaseModel.model_dump (builder.py, line 137): the dict it returns for a
\* dict field is a new object
DumpRef_aliased(field) == "options." \o field
DumpRef(field) == "dump." \o field

\* resolve_input_renames, lines 80-90: the renames of the $global references
\* whose name differs from the argument's
RECURSIVE GlobalRenames(_)
GlobalRenames(inputs) ==
    IF Len(inputs) = 0 THEN <<>>
    ELSE (IF inputs[1].v.kind = "global" /\ inputs[1].k # inputs[1].v.ref
          THEN <<Item(inputs[1].k, inputs[1].v.ref)>> ELSE <<>>)
         \o GlobalRenames(Tail(inputs))
\* line 87: input_value.startswith raises AttributeError on a value that is
\* no str (an InputItem, a number)
InputsRaise(inputs) ==
    \E i \in 1..Len(inputs) : inputs[i].v.kind \in {"item", "int"}

\* resolve_input_defaults, lines 115-117: the parameters whose key is not in
\* the dict are added to it
RECURSIVE AddMissing(_, _)
AddMissing(d, params) ==
    IF Len(params) = 0 THEN d
    ELSE AddMissing(IF HasKey(d, params[1].k) THEN d ELSE Append(d, params[1]),
                    Tail(params))

ExtIdle == RunsIdle /\ ResourcesIdle /\ ChainIdle

(***************************************************************************)
(* Idle values of the variables a specification does not use               *)
(***************************************************************************)
NoCall == [op |-> "none", v |-> EmptyDict, status |-> PENDING, msg |-> NoneMsg]
Call(op) == [NoCall EXCEPT !.op = op]
NoModel == [unbound |-> TRUE]
NoExc == [type |-> "none", msg |-> NoneMsg]
NoArgs == [file |-> "none", content |-> EmptyDict, data |-> None]
NoResolveIn == [user_inputs |-> EmptyDict,
                model |-> [scope |-> "", inputs |-> EmptyDict],
                info |-> [inputs |-> {}, required_inputs |-> {}]]
NoResolveOut == [kind |-> "none", missing |-> {}, final |-> EmptyDict]
NoPersistIn == [declared |-> <<>>, scope |-> NoScope, results |-> {},
                dump |-> [n \in ArtifactNames |-> "ok"], dir |-> "exists"]

TrackerIdle ==
    /\ summary_data = TrackerInit
    /\ now = 0
    /\ call = NoCall
    /\ raised = "none"
    /\ started = FALSE
    /\ completed = FALSE
    /\ prev = TrackerInit

ResolveIdle ==
    /\ rin = NoResolveIn
    /\ rout = NoResolveOut

PersistIdle ==
    /\ pin = NoPersistIn
    /\ pout = [done |-> FALSE, out |-> NoPersistOut]

NoWorkflow == [steps |-> <<>>, default_module |-> ""]
NoBuildOut == [kind |-> "none", step |-> "", funcs |-> <<>>]

BuildIdle ==
    /\ bwf = NoWorkflow
    /\ bpc = "idle"
    /\ idx = 1
    /\ funcs = <<>>
    /\ chains = <<>>
    /\ pkw_ran = FALSE
    /\ bout = NoBuildOut

NoInputsIn == [step_names |-> <<"one">>, at |-> 1, consumes |-> <<>>,
               params |-> <<>>, seed |-> <<>>, seed_defaults |-> <<>>]
InputsIdle ==
    /\ iin = NoInputsIn
    /\ iout = [done |-> FALSE, out |-> NoInputsAcc]

NoMapspecIn == [n |-> 0, defaults |-> <<>>, output_name |-> <<"out">>,
                produces |-> <<>>, name |-> "step",
                mapspec |-> "", map_mode |-> "broadcast"]
\* nothing of the chain has run: options.output_name is the inline one
MapspecStart(in) == [named |-> FALSE, name_raised |-> "none",
                     output_name |-> in.output_name,
                     done |-> FALSE, out |-> NoMapspecOut,
                     again |-> FALSE, out_again |-> NoMapspecOut]
MapspecIdle ==
    /\ msin = NoMapspecIn
    /\ msout = MapspecStart(NoMapspecIn)

StepIdle == InputsIdle /\ MapspecIdle

ComponentsIdle == PersistIdle /\ BuildIdle /\ StepIdle

CoordIdle ==
    /\ pc = "idle"
    /\ args = NoArgs
    /\ workflow_model = NoModel
    /\ summary = "None"
    /\ raw_user_inputs = EmptyDict
    /\ resolved_inputs = EmptyDict
    /\ manifest = EmptyDict
    /\ exc = NoExc
    /\ failed_stage = "none"
    /\ invoked = <<>>
    /\ save_log = <<>>
    /\ disk = None
    /\ outcome = "none"

(***************************************************************************)
(* SpecTracker: the methods of one RunStateTracker, called in any order    *)
(***************************************************************************)
\* start_run(workflow_name, run_dir, workflow_file): assigns the summary, then
\* creates the output directory, which may raise
start_run ==
    \E t \in now..MaxTime, mkdir \in {"ok", "OSError"} :
        /\ summary_data' = StartRunSummary(t)
        /\ now' = t
        /\ call' = Call("start_run")
        /\ raised' = IF mkdir = "ok" THEN "none" ELSE "OSError"
        /\ started' = TRUE
        /\ completed' = FALSE
        /\ prev' = summary_data
        /\ UNCHANGED <<resolve_vars, component_vars, coord_vars>>

get_summary ==
    /\ call' = Call("get_summary")
    /\ raised' = IF get_summary_raises(summary_data) THEN "ValueError" ELSE "none"
    /\ prev' = summary_data
    /\ UNCHANGED <<summary_data, now, started, completed, resolve_vars, component_vars, coord_vars>>

update_user_inputs ==
    \E v \in TrackerDicts :
        /\ call' = [Call("update_user_inputs") EXCEPT !.v = v]
        /\ IF get_summary_raises(summary_data)
           THEN raised' = "ValueError" /\ UNCHANGED summary_data
           ELSE raised' = "none" /\ summary_data' = SetUserInputs(summary_data, v)
        /\ prev' = summary_data
        /\ UNCHANGED <<now, started, completed, resolve_vars, component_vars, coord_vars>>

update_resolved_inputs ==
    \E v \in TrackerDicts :
        /\ call' = [Call("update_resolved_inputs") EXCEPT !.v = v]
        /\ IF get_summary_raises(summary_data)
           THEN raised' = "ValueError" /\ UNCHANGED summary_data
           ELSE raised' = "none" /\ summary_data' = SetResolvedInputs(summary_data, v)
        /\ prev' = summary_data
        /\ UNCHANGED <<now, started, completed, resolve_vars, component_vars, coord_vars>>

update_persisted_outputs ==
    \E v \in TrackerDicts :
        /\ call' = [Call("update_persisted_outputs") EXCEPT !.v = v]
        /\ IF get_summary_raises(summary_data)
           THEN raised' = "ValueError" /\ UNCHANGED summary_data
           ELSE raised' = "none" /\ summary_data' = SetPersistedOutputs(summary_data, v)
        /\ prev' = summary_data
        /\ UNCHANGED <<now, started, completed, resolve_vars, component_vars, coord_vars>>

complete_run ==
    \E status \in Terminal, error_message \in Messages, t \in now..MaxTime :
        /\ call' = [Call("complete_run") EXCEPT !.status = status, !.msg = error_message]
        /\ IF get_summary_raises(summary_data)
           THEN /\ raised' = "ValueError"
                /\ UNCHANGED <<summary_data, now, completed>>
           ELSE /\ raised' = "none"
                /\ summary_data' = CompleteRunSummary(summary_data, status, error_message, t)
                /\ now' = t
                /\ completed' = TRUE
        /\ prev' = summary_data
        /\ UNCHANGED <<started, resolve_vars, component_vars, coord_vars>>

InitTracker == TrackerIdle /\ ExtIdle /\ ResolveIdle /\ ComponentsIdle /\ CoordIdle

NextTracker ==
    \/ start_run
    \/ get_summary
    \/ update_user_inputs
    \/ update_resolved_inputs
    \/ update_persisted_outputs
    \/ complete_run

SpecTracker == InitTracker /\ [][NextTracker]_vars

(***************************************************************************)
(* SpecResolve: InputResolver.resolve applied once to bounded arguments    *)
(***************************************************************************)
InitResolve ==
    /\ TrackerIdle
    /\ ExtIdle
    /\ ComponentsIdle
    /\ CoordIdle
    /\ rin \in [user_inputs : UserInputs, model : WorkflowModels, info : PipelineInfos]
    /\ rout = NoResolveOut

resolve_call ==
    /\ rout.kind = "none"
    /\ rout' = resolve(rin.user_inputs, rin.model, rin.info.inputs,
                       rin.info.required_inputs)
    /\ UNCHANGED <<rin, tracker_vars, component_vars, coord_vars>>

NextResolve == resolve_call

SpecResolve == InitResolve /\ [][NextResolve]_vars

(***************************************************************************)
(* SpecPersist: OutputPersister.persist applied once to bounded arguments  *)
(***************************************************************************)
InitPersist ==
    /\ TrackerIdle
    /\ ExtIdle
    /\ ResolveIdle
    /\ BuildIdle
    /\ StepIdle
    /\ CoordIdle
    /\ pin \in PersistInputs
    /\ pout = [done |-> FALSE, out |-> NoPersistOut]

persist_call ==
    /\ ~pout.done
    /\ pout' = [done |-> TRUE,
                out |-> persist(pin.declared, pin.scope, pin.results, pin.dump,
                                pin.dir)]
    /\ UNCHANGED <<pin, tracker_vars, resolve_vars, build_vars, step_vars, coord_vars, ext_vars>>

NextPersist == persist_call

SpecPersist == InitPersist /\ [][NextPersist]_vars

(***************************************************************************)
(* SpecInputs: resolve_inputs applied once to a step of a workflow         *)
(***************************************************************************)
InitInputs ==
    /\ TrackerIdle
    /\ ExtIdle
    /\ ResolveIdle
    /\ PersistIdle
    /\ BuildIdle
    /\ MapspecIdle
    /\ CoordIdle
    /\ iin \in InputsInputs
    /\ iout = [done |-> FALSE, out |-> NoInputsAcc]

resolve_inputs_call ==
    /\ ~iout.done
    /\ iout' = [done |-> TRUE,
                out |-> resolve_inputs([renames |-> iin.seed,
                                        defaults |-> iin.seed_defaults],
                                       [consumes |-> iin.consumes,
                                        params |-> iin.params],
                                       RenderingContext({iin.step_names[i] :
                                                            i \in 1..Len(iin.step_names)}))]
    /\ UNCHANGED <<iin, msin, msout, tracker_vars, resolve_vars, persist_vars,
                   build_vars, coord_vars, ext_vars>>

NextInputs == resolve_inputs_call

SpecInputs == InitInputs /\ [][NextInputs]_vars

(***************************************************************************)
(* SpecMapspec: resolve_mapspec applied once to bounded options            *)
(***************************************************************************)
InitMapspec ==
    /\ TrackerIdle
    /\ ExtIdle
    /\ ResolveIdle
    /\ PersistIdle
    /\ BuildIdle
    /\ InputsIdle
    /\ CoordIdle
    /\ msin \in MapspecInputs
    /\ msout = MapspecStart(msin)

\* the options resolve_mapspec receives: the renames and defaults that
\* resolve_inputs left, the output_name that resolve_output_name left
MapspecOptions ==
    [mapspec |-> msin.mapspec,
     renames |-> Renames(msin.n),
     defaults |-> msin.defaults,
     output_name |-> msout.output_name]

resolve_output_name_call ==
    /\ ~msout.named
    /\ LET r == resolve_output_name([output_name |-> msin.output_name],
                                    [produces |-> msin.produces,
                                     name |-> msin.name])
       IN  msout' = [msout EXCEPT !.named = TRUE,
                                  !.name_raised = r.raised,
                                  !.output_name = r.output_name]
    /\ UNCHANGED <<msin, iin, iout, tracker_vars, resolve_vars, persist_vars,
                   build_vars, coord_vars, ext_vars>>

\* Chain.__call__ (composition/chain.py, lines 24-28): the next resolver
\* runs on what the previous one returned, and not at all after a raise
resolve_mapspec_call ==
    /\ msout.named
    /\ msout.name_raised = "none"
    /\ ~msout.done
    /\ msout' = [msout EXCEPT !.done = TRUE,
                              !.out = resolve_mapspec(MapspecOptions,
                                          [map_mode |-> msin.map_mode])]
    /\ UNCHANGED <<msin, iin, iout, tracker_vars, resolve_vars, persist_vars,
                   build_vars, coord_vars, ext_vars>>

\* resolve_mapspec applied to the options its first application returned
\* (line 357: options.model_copy(update={"mapspec": mapspec_string}))
resolve_mapspec_again ==
    /\ msout.done
    /\ msout.out.raised = "none"
    /\ ~msout.again
    /\ msout' = [msout EXCEPT !.again = TRUE,
                              !.out_again = resolve_mapspec(
                                  [MapspecOptions EXCEPT !.mapspec = msout.out.mapspec],
                                  [map_mode |-> msin.map_mode])]
    /\ UNCHANGED <<msin, iin, iout, tracker_vars, resolve_vars, persist_vars,
                   build_vars, coord_vars, ext_vars>>

NextMapspec ==
    \/ resolve_output_name_call
    \/ resolve_mapspec_call
    \/ resolve_mapspec_again

SpecMapspec == InitMapspec /\ [][NextMapspec]_vars

(***************************************************************************)
(* SpecBuild: one call of PipelineBuilder.build (pipeline/builder.py,      *)
(* lines 64-128) with the default resolvers.  A step is its name and its   *)
(* `func`: "none" (not specified), "path" (an importable dotted path) or   *)
(* "bad_path" (one import_callable fails on).  What pipefunc.PipeFunc and  *)
(* pipefunc.Pipeline do with their arguments is the library's choice.      *)
(***************************************************************************)
StepDefinitions == [name : StepNames, func : StepFuncs]
RECURSIVE StepLists(_)
StepLists(n) ==
    IF n = 0 THEN {<<>>}
    ELSE StepLists(n - 1) \cup
         {Append(s, d) : s \in {t \in StepLists(n - 1) : Len(t) = n - 1},
                         d \in StepDefinitions}
Workflows == [steps : StepLists(MaxSteps), default_module : {"", "m"}]

BuildError(step) == [kind |-> "PipelineBuildError", step |-> step, funcs |-> <<>>]

\* resolvers.py, lines 19-66: the path is step.func, else
\* f"{default_module}.{step.name}", else PipelineBuildError; then the import
resolve_function_path(step, default_module) ==
    IF step.func = "none"
    THEN IF default_module # "" /\ step.name # "" THEN "ok" ELSE "PipelineBuildError"
    ELSE IF step.func = "path" THEN "ok" ELSE "PipelineBuildError"

\* builder.py, lines 151-157: the step resolvers, in order; the first that
\* raises ends the chain.  Of the default resolvers only resolve_function_path
\* raises on the steps drawn here
StepResolvers(step, workflow) == resolve_function_path(step, workflow.default_module)

\* builder.py, lines 130-179: the resolvers, then pipefunc.PipeFunc(**final_options),
\* every exception re-raised as a PipelineBuildError that names the step
create_pipe_func_from_step(step, workflow, pipefunc) ==
    IF StepResolvers(step, workflow) # "ok" THEN "PipelineBuildError"
    ELSE IF pipefunc = "ok" THEN "ok" ELSE "PipelineBuildError"

\* builder.py, lines 73-89: what build does with an exception of a step:
\* it is raised (wrapped when it is no PipelineBuildError)
OnStepError_skips == "skip"
OnStepError == "raise"

\* lines 69-89: one turn of `for step_model in workflow_model.spec.steps`
build_step ==
    /\ bpc = "steps"
    /\ idx <= Len(bwf.steps)
    /\ chains' = Append(chains, idx)
    /\ \E pipefunc \in {"ok", "TypeError"} :
          LET step == bwf.steps[idx]
              r == create_pipe_func_from_step(step, bwf, pipefunc)
          IN  IF r = "ok"
              THEN /\ funcs' = Append(funcs, step.name)
                   /\ idx' = idx + 1
                   /\ UNCHANGED <<bpc, bout>>
              ELSE IF OnStepError = "raise"
                   THEN /\ bout' = BuildError(step.name)
                        /\ bpc' = "done"
                        /\ UNCHANGED <<funcs, idx>>
                   ELSE /\ idx' = idx + 1
                        /\ UNCHANGED <<funcs, bpc, bout>>
    /\ UNCHANGED <<bwf, pkw_ran, tracker_vars, resolve_vars, persist_vars, step_vars, coord_vars, ext_vars>>

\* lines 91-99: the pipeline option resolvers, once the loop has ended; an
\* exception of one of them is re-raised as a PipelineBuildError
build_pipeline_options ==
    /\ bpc = "steps"
    /\ idx > Len(bwf.steps)
    /\ pkw_ran' = TRUE
    /\ \E r \in {"ok", "raises"} :
          IF r = "ok"
          THEN bpc' = "instantiate" /\ UNCHANGED bout
          ELSE bpc' = "done" /\ bout' = BuildError("")
    /\ UNCHANGED <<bwf, idx, funcs, chains, tracker_vars, resolve_vars,
                   persist_vars, step_vars, coord_vars, ext_vars>>

\* lines 101-128: pipefunc.Pipeline(funcs, **pipeline_kwargs) is returned, or
\* what it raised is re-raised as a PipelineBuildError
build_instantiate ==
    /\ bpc = "instantiate"
    /\ \E r \in {"ok", "raises"} :
          bout' = IF r = "ok"
                  THEN [kind |-> "pipeline", step |-> "", funcs |-> funcs]
                  ELSE BuildError("")
    /\ bpc' = "done"
    /\ UNCHANGED <<bwf, idx, funcs, chains, pkw_ran, tracker_vars, resolve_vars,
                   persist_vars, step_vars, coord_vars, ext_vars>>

InitBuild ==
    /\ TrackerIdle
    /\ ExtIdle
    /\ ResolveIdle
    /\ PersistIdle
    /\ StepIdle
    /\ CoordIdle
    /\ bwf \in Workflows
    /\ bpc = "steps"
    /\ idx = 1
    /\ funcs = <<>>
    /\ chains = <<>>
    /\ pkw_ran = FALSE
    /\ bout = NoBuildOut

NextBuild ==
    \/ build_step
    \/ build_pipeline_options
    \/ build_instantiate

SpecBuild == InitBuild /\ [][NextBuild]_vars

(***************************************************************************)
(* Spec: one call of WorkflowRunCoordinator.execute_workflow               *)
(* (coordinator.py, lines 68-222), no reporter attached.  A collaborator   *)
(* either returns or raises; which, is the environment's choice.           *)
(***************************************************************************)
\* the named stages, in the order execute_workflow reaches them
StageOrder == <<"load_definition", "setup_environment", "build_pipeline",
                "load_params", "resolve_params", "execute",
                "persist_artifacts", "complete">>

\* str(e) of an exception a collaborator raised: possibly empty
RaisedMessages == {"", "boom"}
\* the workflows, user inputs and pipelines one run is driven with
CoordNames == {"x"}
CoordKeys == CoordNames \cup {ScopedName("s", n) : n \in CoordNames}
CoordModels ==
    {[scope |-> sc, inputs |-> i] :
        sc \in Scopes, i \in UNION {[d -> ItemSpecs] : d \in SUBSET CoordNames}}
CoordUserInputs == UNION {[d -> {UserValue}] : d \in SUBSET CoordKeys}
CoordInfos ==
    UNION {{[inputs |-> i, required_inputs |-> r] : r \in SUBSET i} :
             i \in SUBSET CoordKeys}
\* what one run's persist is applied to: at most one declared output
CoordPersistInputs ==
    {p \in PersistInputs : Len(p.declared) <= 1 /\ p.declared # <<"b">>
                              /\ p.results \subseteq {"a", "s.a"}
                              /\ p.dump["b"] = "ok"}

\* a stage raises: the exception is in flight and control passes to `except`
Raise(stage, type, msg) ==
    /\ exc' = [type |-> type, msg |-> msg]
    /\ failed_stage' = stage
    /\ pc' = "except"

\* where control goes when the stage at `at` returns
AfterStage_persist_first(at) ==
    CASE at = "load_definition"   -> "setup_environment"
      [] at = "setup_environment" -> "start_run"
      [] at = "start_run"         -> "build_pipeline"
      [] at = "build_pipeline"    -> "load_params"
      [] at = "load_params"       -> "resolve_params"
      [] at = "resolve_params"    -> "persist_artifacts"
      [] at = "persist_artifacts" -> "execute"
      [] at = "execute"           -> "complete_run"
      [] at = "complete_run"      -> "finally"
AfterStage_skip_execute(at) ==
    CASE at = "load_definition"   -> "setup_environment"
      [] at = "setup_environment" -> "start_run"
      [] at = "start_run"         -> "build_pipeline"
      [] at = "build_pipeline"    -> "load_params"
      [] at = "load_params"       -> "resolve_params"
      [] at = "resolve_params"    -> "persist_artifacts"
      [] at = "execute"           -> "persist_artifacts"
      [] at = "persist_artifacts" -> "complete_run"
      [] at = "complete_run"      -> "finally"
AfterStage(at) ==
    CASE at = "load_definition"   -> "setup_environment"
      [] at = "setup_environment" -> "start_run"
      [] at = "start_run"         -> "build_pipeline"
      [] at = "build_pipeline"    -> "load_params"
      [] at = "load_params"       -> "resolve_params"
      [] at = "resolve_params"    -> "execute"
      [] at = "execute"           -> "persist_artifacts"
      [] at = "persist_artifacts" -> "complete_run"
      [] at = "complete_run"      -> "finally"

\* a tracker call made by the coordinator
TrackerCall(c, s2) ==
    /\ call' = c
    /\ prev' = summary_data
    /\ summary_data' = s2
    /\ raised' = "none"

\* lines 87-88: self.definition_loader.from_path(workflow_file_path)
load_definition ==
    /\ pc = "load_definition"
    /\ invoked' = Append(invoked, "load_definition")
    /\ \/ /\ \E m \in CoordModels : workflow_model' = m
          /\ pc' = AfterStage("load_definition")
          /\ UNCHANGED <<exc, failed_stage>>
       \/ /\ \E msg \in RaisedMessages :
                Raise("load_definition", "WorkflowDefinitionLoaderError", msg)
          /\ UNCHANGED workflow_model
    /\ UNCHANGED <<tracker_vars, resolve_vars, component_vars, args, summary, raw_user_inputs,
                   resolved_inputs, manifest, save_log, disk, outcome>>

\* lines 90-93: self.env_manager.setup_run_directories(name, run_id)
setup_environment ==
    /\ pc = "setup_environment"
    /\ invoked' = Append(invoked, "setup_environment")
    /\ \/ /\ pc' = AfterStage("setup_environment")
          /\ UNCHANGED <<exc, failed_stage>>
       \/ Raise("setup_environment", "RunEnvironmentManagerError", "boom")
    /\ UNCHANGED <<tracker_vars, resolve_vars, component_vars, args, workflow_model, summary,
                   raw_user_inputs, resolved_inputs, manifest, save_log, disk,
                   outcome>>

\* lines 95-100: state_tracker.start_run(...); summary = state_tracker.get_summary()
\* start_run assigns _summary_data before it creates the output directory
coord_start_run ==
    /\ pc = "start_run"
    /\ \E t \in now..MaxTime :
          /\ TrackerCall(Call("start_run"), StartRunSummary(t))
          /\ now' = t
    /\ started' = TRUE
    /\ \/ /\ summary' = "ref"
          /\ pc' = AfterStage("start_run")
          /\ UNCHANGED <<exc, failed_stage>>
       \/ /\ \E msg \in RaisedMessages : Raise("start_run", "OSError", msg)
          /\ UNCHANGED summary
    /\ UNCHANGED <<completed, resolve_vars, component_vars, args, workflow_model, raw_user_inputs,
                   resolved_inputs, manifest, invoked, save_log, disk, outcome>>

\* lines 102-104: self.pipeline_builder.build(workflow_model)
build_pipeline ==
    /\ pc = "build_pipeline"
    /\ invoked' = Append(invoked, "build_pipeline")
    /\ \/ /\ pc' = AfterStage("build_pipeline")
          /\ UNCHANGED <<exc, failed_stage>>
       \/ \E msg \in RaisedMessages : Raise("build_pipeline", "PipelineBuildError", msg)
    /\ UNCHANGED <<tracker_vars, resolve_vars, component_vars, args, workflow_model, summary,
                   raw_user_inputs, resolved_inputs, manifest, save_log, disk,
                   outcome>>

\* lines 106-119: the file if a path is given, else the in-memory map if one
\* is given, else {}
LoadedParams_data_first(a) ==
    IF a.data # None THEN a.data
    ELSE IF a.file = "given" THEN a.content
    ELSE EmptyDict
LoadedParams(a) ==
    IF a.file = "given" THEN a.content
    ELSE IF a.data # None THEN a.data
    ELSE EmptyDict

\* lines 106-121: raw_user_inputs is chosen (load_from_file may raise), then
\* state_tracker.update_user_inputs(raw_user_inputs)
load_params ==
    /\ pc = "load_params"
    /\ invoked' = Append(invoked, "load_params")
    /\ \/ /\ LET raw == LoadedParams(args)
             IN /\ raw_user_inputs' = raw
                /\ TrackerCall([Call("update_user_inputs") EXCEPT !.v = raw],
                               SetUserInputs(summary_data, raw))
          /\ pc' = AfterStage("load_params")
          /\ UNCHANGED <<exc, failed_stage>>
       \/ /\ args.file = "given"
          /\ Raise("load_params", "InputProviderError", "boom")
          /\ UNCHANGED <<raw_user_inputs, summary_data, call, prev, raised>>
    /\ UNCHANGED <<now, started, completed, resolve_vars, component_vars, args, workflow_model,
                   summary, resolved_inputs, manifest, save_log, disk, outcome>>

\* lines 123-132: pipeline.info(), self.input_resolver.resolve(...), then
\* state_tracker.update_resolved_inputs(resolved_inputs)
resolve_params ==
    /\ pc = "resolve_params"
    /\ invoked' = Append(invoked, "resolve_params")
    /\ \E info \in CoordInfos :
          LET r == resolve(raw_user_inputs, workflow_model, info.inputs,
                           info.required_inputs)
          IN  /\ rin' = [user_inputs |-> raw_user_inputs, model |-> workflow_model,
                         info |-> info]
              /\ rout' = r
              /\ IF r.kind = "ok"
                 THEN /\ resolved_inputs' = r.final
                      /\ TrackerCall([Call("update_resolved_inputs") EXCEPT !.v = r.final],
                                     SetResolvedInputs(summary_data, r.final))
                      /\ pc' = AfterStage("resolve_params")
                      /\ UNCHANGED <<exc, failed_stage>>
                 ELSE /\ Raise("resolve_params", r.kind, "boom")
                      /\ UNCHANGED <<resolved_inputs, summary_data, call, prev, raised>>
    /\ UNCHANGED <<now, started, completed, component_vars, args, workflow_model,
                   summary, raw_user_inputs, manifest, save_log, disk, outcome>>

\* lines 134-138: self.pipeline_executor.execute(...); PipelineExecutor.execute
\* wraps whatever pipeline.map raises in a PipelineExecutionError whose
\* message is never empty (executor.py, lines 35-41)
execute ==
    /\ pc = "execute"
    /\ invoked' = Append(invoked, "execute")
    /\ \/ /\ pc' = AfterStage("execute")
          /\ UNCHANGED <<exc, failed_stage>>
       \/ Raise("execute", "PipelineExecutionError", "boom")
    /\ UNCHANGED <<tracker_vars, resolve_vars, component_vars, args, workflow_model, summary,
                   raw_user_inputs, resolved_inputs, manifest, save_log, disk,
                   outcome>>

\* lines 140-147: self.output_persister.persist(...), then
\* state_tracker.update_persisted_outputs(persisted_outputs_manifest)
persist_artifacts ==
    /\ pc = "persist_artifacts"
    /\ invoked' = Append(invoked, "persist_artifacts")
    /\ \E p \in CoordPersistInputs :
          LET r == persist(p.declared, workflow_model.scope, p.results, p.dump, p.dir)
          IN  /\ p.scope = workflow_model.scope
              /\ IF r.raised = "none"
                 THEN /\ manifest' = r.manifest
                      /\ TrackerCall([Call("update_persisted_outputs")
                                          EXCEPT !.v = r.manifest],
                                     SetPersistedOutputs(summary_data, r.manifest))
                      /\ pc' = AfterStage("persist_artifacts")
                      /\ UNCHANGED <<exc, failed_stage>>
                 ELSE /\ Raise("persist_artifacts", r.raised, "boom")
                      /\ UNCHANGED <<manifest, summary_data, call, prev, raised>>
    /\ UNCHANGED <<now, started, completed, resolve_vars, component_vars, args, workflow_model,
                   summary, raw_user_inputs, resolved_inputs, save_log, disk,
                   outcome>>

\* line 149: state_tracker.complete_run(status=Status.SUCCESS)
coord_complete_run ==
    /\ pc = "complete_run"
    /\ \E t \in now..MaxTime :
          /\ TrackerCall([Call("complete_run") EXCEPT !.status = SUCCESS],
                         CompleteRunSummary(summary_data, SUCCESS, NoneMsg, t))
          /\ now' = t
    /\ completed' = TRUE
    /\ pc' = AfterStage("complete_run")
    /\ UNCHANGED <<started, resolve_vars, component_vars, args, workflow_model, summary,
                   raw_user_inputs, resolved_inputs, manifest, exc, failed_stage,
                   invoked, save_log, disk, outcome>>

\* the exception the handler leaves in flight when the tracker holds no
\* summary: line 190 reads summary.start_time while `summary` is still None
\* (it is bound only at line 100), an AttributeError raised inside the handler
HandlerWithoutSummary == "AttributeError"

\* lines 151-197: the except clause
except_handler ==
    /\ pc = "except"
    /\ IF summary_data # None
       THEN \* lines 163-164, 197
            /\ \E t \in now..MaxTime :
                  /\ TrackerCall([Call("complete_run") EXCEPT !.status = FAILED,
                                                              !.msg = exc.msg],
                                 CompleteRunSummary(summary_data, FAILED, exc.msg, t))
                  /\ now' = t
            /\ completed' = TRUE
            /\ exc' = [type |-> "WorkflowRunError", msg |-> "Run '<run_id>' failed."]
       ELSE \* lines 165-192
            /\ exc' = [type |-> HandlerWithoutSummary, msg |-> "boom"]
            /\ UNCHANGED <<summary_data, now, call, prev, raised, completed>>
    /\ pc' = "finally"
    /\ UNCHANGED <<started, resolve_vars, component_vars, args, workflow_model, summary,
                   raw_user_inputs, resolved_inputs, manifest, failed_stage,
                   invoked, save_log, disk, outcome>>

\* line 199: `if summary:` tests the local variable, not the tracker
SaveAttempted(local, tracked) == local # "None"

\* lines 200-208: the exception in flight once save has returned or raised
\* r: `except Exception as e_sum` logs what save raised and drops it
AfterSave_propagates(e, r) ==
    IF r = "none" THEN e ELSE [type |-> r, msg |-> "boom"]
AfterSave(e, r) == e

\* what the caller gets: `return summary` (line 222), or the exception
Outcome(e) == IF e.type = "none" THEN "returned" ELSE e.type

\* lines 198-222: the finally clause, then the return or the re-raise.
\* SummaryPersister.save either writes summary.json or raises; what it raises
\* is logged and dropped (lines 203-208)
finally_block ==
    /\ pc = "finally"
    /\ IF SaveAttempted(summary, summary_data)
       THEN /\ invoked' = Append(invoked, "complete")
            /\ \E r \in {"none", "SummaryPersistenceError"} :
                  /\ save_log' = Append(save_log, [summary |-> summary_data,
                                                   raised |-> r])
                  /\ disk' = IF r = "none" THEN summary_data ELSE disk
                  /\ outcome' = Outcome(AfterSave(exc, r))
       ELSE /\ outcome' = Outcome(exc)
            /\ UNCHANGED <<invoked, save_log, disk>>
    /\ pc' = "done"
    /\ UNCHANGED <<tracker_vars, resolve_vars, component_vars, args, workflow_model, summary,
                   raw_user_inputs, resolved_inputs, manifest, exc, failed_stage>>

\* execute_workflow(workflow_file_path, input_data, input_file_path, ...)
\* line 80: the tracker is created, holding no summary
Init ==
    /\ TrackerIdle
    /\ ExtIdle
    /\ ResolveIdle
    /\ ComponentsIdle
    /\ pc = "load_definition"
    /\ args \in {a \in [file : {"none", "given"}, content : CoordUserInputs,
                         data : {None} \cup CoordUserInputs] :
                     a.file = "none" => a.content = EmptyDict}
    /\ workflow_model = NoModel
    /\ summary = "None"
    /\ raw_user_inputs = EmptyDict
    /\ resolved_inputs = EmptyDict
    /\ manifest = EmptyDict
    /\ exc = NoExc
    /\ failed_stage = "none"
    /\ invoked = <<>>
    /\ save_log = <<>>
    /\ disk = None
    /\ outcome = "none"

Next ==
    \/ load_definition
    \/ setup_environment
    \/ coord_start_run
    \/ build_pipeline
    \/ load_params
    \/ resolve_params
    \/ execute
    \/ persist_artifacts
    \/ coord_complete_run
    \/ except_handler
    \/ finally_block

Spec == Init /\ [][Next]_vars

(***************************************************************************)
(* Claims about RunStateTracker, checked under SpecTracker                 *)
(***************************************************************************)
UpdateOps == {"update_user_inputs", "update_resolved_inputs", "update_persisted_outputs"}
GuardedOps == UpdateOps \cup {"complete_run", "get_summary"}
StatusOf(s) == IF s = None THEN PENDING ELSE s.status

C7_RaisesBeforeStart ==
    (~started /\ call.op \in GuardedOps) =>
        /\ raised = "ValueError"
        /\ summary_data = None

\* C7 witness: complete_run was called on a tracker never started, and raised
C7_Witness ==
    /\ ~started
    /\ call.op = "complete_run"
    /\ raised = "ValueError"

C9_Duration ==
    summary_data # None =>
        /\ duration_seconds(summary_data) = NoneDuration
               <=> summary_data.end_time = NoneTime
        /\ ~completed => summary_data.end_time = NoneTime
        /\ completed =>
               /\ summary_data.end_time # NoneTime
               /\ duration_seconds(summary_data) =
                      Some(summary_data.end_time[1] - summary_data.start_time[1])

\* C9 witness: complete_run has run on a summary started at time 0, later
C9_Witness ==
    /\ summary_data # None
    /\ completed
    /\ summary_data.start_time = Some(0)
    /\ duration_seconds(summary_data) = Some(1)

(***************************************************************************)
(* Claims about WorkflowRunCoordinator.execute_workflow, checked under     *)
(* Spec                                                                    *)
(***************************************************************************)
Done == pc = "done"
Prefix(k) == SubSeq(StageOrder, 1, k)
\* the summary the one call of SummaryPersister.save was handed
SavedOnce(s) == Len(save_log) = 1 /\ save_log[1].summary = s

\* C1: whenever the run has reached RUNNING (start_run has assigned the
\* RUNNING summary), SummaryPersister.save has been called with the run's
\* summary by the time execute_workflow returns or raises.
C1_SavedWheneverRunning ==
    (Done /\ started) => SavedOnce(summary_data)

\* C2: whatever stage fails, the caller gets a completed Summary (status
\* success or failed) or the WorkflowRunError that names the run id, and no
\* other exception.
C2_SummaryOrRunError ==
    Done =>
        \/ /\ outcome = "returned"
           /\ summary = "ref"
           /\ summary_data.status \in Terminal
        \/ outcome = "WorkflowRunError"

C4_SaveBeforeRaise ==
    (Done /\ failed_stage # "none") =>
        /\ Len(save_log) = 1
        /\ outcome = "WorkflowRunError"

\* C5: the stages are invoked in the fixed order load_definition,
\* setup_environment, build_pipeline, load_params, resolve_params, execute,
\* persist_artifacts, complete: each at most once, each only after the one
\* before it returned, and after a stage raised none but complete.
C5_StageOrder ==
    \E k \in 0..7 :
        /\ \/ invoked = Prefix(k)
           \/ invoked = Prefix(k) \o <<"complete">> /\ Done
        /\ failed_stage \notin {"none", "start_run"} =>
               /\ k >= 1
               /\ failed_stage = StageOrder[k]
        /\ failed_stage = "start_run" => k = 2
        /\ (failed_stage = "none" /\ pc \notin {"start_run", "complete_run", "finally", "done"}) =>
               pc = StageOrder[k + 1]

\* C5 witness: resolve_params raised; nothing but complete was invoked after it
C5_Witness ==
    /\ Done
    /\ failed_stage = "resolve_params"
    /\ invoked = Prefix(5) \o <<"complete">>

\* the names of the merged (defaults plus user) parameter set of the run
MergedNames ==
    {ScopedName(rin.model.scope, n) : n \in DOMAIN rin.model.inputs}
        \cup DOMAIN rin.user_inputs

\* C10: resolve_params raises exactly when a required name is absent from
\* the merged parameter set, its error lists exactly the missing names, and
\* execute is not invoked in that run.
C10_RaisesIffMissing ==
    rout.kind # "none" =>
        LET missing == rin.info.required_inputs \ MergedNames
        IN  /\ rout.kind # "ok" <=> missing # {}
            /\ rout.kind # "ok" =>
                   /\ rout.kind = "InputResolverError"
                   /\ rout.missing = missing
                   /\ \A i \in 1..Len(invoked) : invoked[i] # "execute"


(***************************************************************************)
(* Claims about InputResolver.resolve, checked under SpecResolve           *)
(***************************************************************************)
\* the keys the workflow's defaults are stored under
DefaultKeys == {ScopedName(rin.model.scope, n) : n \in DOMAIN rin.model.inputs}
\* the keys supplied both as a workflow default and by the user
Collisions == DefaultKeys \cap DOMAIN rin.user_inputs

\* C11: for every parameter supplied both as a workflow-level default and by
\* the user, the merged value is the user's value, with or without a scope
\* prefix, and so is the value resolve returns for it when the pipeline
\* expects that parameter.
C11_UserWins ==
    rout.kind = "ok" =>
        \A k \in Collisions :
            /\ Merged(AppliedDefaults(rin.model.scope, rin.model.inputs),
                      rin.user_inputs)[k] = rin.user_inputs[k]
            /\ k \in rin.info.inputs =>
                   /\ k \in DOMAIN rout.final
                   /\ rout.final[k] = rin.user_inputs[k]

\* C11 witness: under scope "s" the default of x and the user's "s.x" collide,
\* and resolve returned the user's value
C11_Witness ==
    /\ rout.kind = "ok"
    /\ rin.model.scope = "s"
    /\ "x" \in DOMAIN rin.model.inputs
    /\ rin.model.inputs["x"].value = DefaultValue
    /\ "s.x" \in DOMAIN rin.user_inputs
    /\ "s.x" \in DOMAIN rout.final
    /\ rout.final["s.x"] = UserValue


\* C12: when a required input is absent from the user's inputs but present
\* as a workflow default (no other required input missing), resolve_params
\* succeeds, the resolved set maps that input to the default's value, and
\* the summary's resolved_inputs records the resolved set.
C12_DefaultResolves ==
    rout.kind # "none" =>
        \A r \in rin.info.required_inputs :
            ( /\ r \notin DOMAIN rin.user_inputs
              /\ r \in DefaultKeys
              /\ rin.info.required_inputs \subseteq MergedNames ) =>
                /\ rout.kind = "ok"
                /\ r \in DOMAIN rout.final
                /\ rout.final[r] = AppliedDefaults(rin.model.scope, rin.model.inputs)[r]
                /\ summary_data # None
                /\ summary_data.resolved_inputs = rout.final


(***************************************************************************)
(* Further claims about execute_workflow, checked under Spec               *)
(***************************************************************************)
\* the load_params stage has returned
ParamsLoaded ==
    \E i \in 1..Len(invoked) :
        /\ invoked[i] = "load_params"
        /\ pc # "load_params"
        /\ failed_stage # "load_params"

\* C13: once load_params has returned, the user params are the file's
\* content when a file path was given (whether or not an in-memory map was
\* given too), else the in-memory map when one was given, else the empty
\* map; and the tracker's summary records exactly them as user_inputs.
C13_OneSource ==
    ParamsLoaded =>
        /\ args.file = "given" => raw_user_inputs = args.content
        /\ (args.file = "none" /\ args.data # None) => raw_user_inputs = args.data
        /\ (args.file = "none" /\ args.data = None) => raw_user_inputs = EmptyDict
        /\ summary_data # None
        /\ summary_data.user_inputs = raw_user_inputs

\* C13 witness: a file and a different in-memory map were both given, and
\* the summary records the file's content
C13_Witness ==
    /\ ParamsLoaded
    /\ args.file = "given"
    /\ args.data # None
    /\ args.data # args.content
    /\ summary_data.user_inputs = args.content


\* C15: when SummaryPersister.save raises, nothing of it reaches the caller
\* and the summary keeps the status it was handed to save with: a run whose
\* stages all succeeded returns its Summary with status success, and a run
\* in which a stage failed raises the WorkflowRunError of that failure.
C15_SaveFailureSwallowed ==
    (Done /\ Len(save_log) = 1 /\ save_log[1].raised # "none") =>
        /\ summary_data = save_log[1].summary
        /\ failed_stage = "none" =>
               /\ outcome = "returned"
               /\ summary_data.status = SUCCESS
        /\ failed_stage # "none" =>
               /\ outcome = "WorkflowRunError"
               /\ summary_data.status = FAILED

\* C15 witness: every stage succeeded, save raised, the caller still got
\* the SUCCESS summary
C15_Witness ==
    /\ Done
    /\ failed_stage = "none"
    /\ Len(save_log) = 1
    /\ save_log[1].raised = "SummaryPersistenceError"
    /\ outcome = "returned"
    /\ summary_data.status = SUCCESS


(***************************************************************************)
(* Claims about OutputPersister.persist, checked under SpecPersist         *)
(***************************************************************************)
\* the source of a declared output is present in the result set
SourcePresent(n) == ScopedName(pin.scope, n) \in pin.results
\* the base output directory exists or could be created
OutputDirUsable == pin.dir # "OSError"

BuildDone == bpc = "done"
\* the resolver chain of the step at index k cannot succeed
ChainFails(k) ==
    \/ bwf.steps[k].func = "bad_path"
    \/ bwf.steps[k].func = "none" /\ bwf.default_module = ""
\* the first index whose step bears a name an earlier step bears (0: none)
FirstDuplicate ==
    LET dups == {j \in 1..Len(bwf.steps) :
                    \E i \in 1..(j - 1) : bwf.steps[i].name = bwf.steps[j].name}
    IN  IF dups = {} THEN 0 ELSE CHOOSE j \in dups : \A m \in dups : j <= m

\* C16: build runs the resolver chains of the steps in declaration order and
\* aborts at the first step that fails: the error raised is a
\* PipelineBuildError naming that step, no later step's chain is run, the
\* pipeline option resolvers are not run, and no pipeline is returned; a
\* workflow with a step whose chain cannot succeed never yields a pipeline.
C16_AbortAtFirstFailure ==
    /\ chains = [i \in 1..Len(chains) |-> i]
    /\ (bout.kind = "PipelineBuildError" /\ bout.step # "") =>
           /\ bout.step = bwf.steps[Len(chains)].name
           /\ funcs = [i \in 1..(Len(chains) - 1) |-> bwf.steps[i].name]
           /\ ~pkw_ran
           /\ bout.funcs = <<>>
    /\ BuildDone =>
           \A k \in 1..Len(bwf.steps) :
               ChainFails(k) =>
                   /\ bout.kind = "PipelineBuildError"
                   /\ bout.step # ""
                   /\ Len(chains) <= k
                   /\ ~pkw_ran

\* C16 witness: of three steps the second has a path that cannot be
\* imported; build raised naming it, having run the chains of steps 1 and 2
C16_Witness ==
    /\ BuildDone
    /\ Len(bwf.steps) = 3
    /\ bwf.steps[2].func = "bad_path"
    /\ chains = <<1, 2>>
    /\ funcs = <<bwf.steps[1].name>>
    /\ bout = BuildError(bwf.steps[2].name)
    /\ ~pkw_ran

\* C17: for a workflow in which two steps bear the same name build raises a
\* PipelineBuildError, and it runs the resolver chain of no step declared
\* after the duplicate; the uniqueness of names is no reason for build to
\* raise when the names are pairwise distinct or there are no steps.
C17_DuplicateName ==
    BuildDone =>
        /\ FirstDuplicate # 0 =>
               /\ bout.kind = "PipelineBuildError"
               /\ \A i \in 1..Len(chains) : chains[i] <= FirstDuplicate
        /\ (FirstDuplicate = 0 /\ bout.kind = "PipelineBuildError") =>
               \/ bout.step # ""
               \/ pkw_ran

\* C19: when workflow.spec.steps is empty build raises a PipelineBuildError
\* and returns no pipeline.
C19_EmptySteps ==
    (BuildDone /\ Len(bwf.steps) = 0) =>
        /\ bout.kind = "PipelineBuildError"
        /\ bout.funcs = <<>>


(***************************************************************************)
(* Claims about resolve_inputs, checked under SpecInputs                   *)
(***************************************************************************)
\* the names of the steps of the workflow
WorkflowStepNames == {iin.step_names[i] : i \in 1..Len(iin.step_names)}
\* some entry of the dict is a producer-step reference to a step that is
\* not in the workflow's step list
HasUnknownStepRef(d) ==
    \E i \in 1..Len(d) : d[i].v.kind = "step" /\ d[i].v.ref \notin WorkflowStepNames

BroadcastResolved ==
    /\ msout.done
    /\ msin.map_mode = "broadcast"
    /\ msin.mapspec = ""

\* C20: for a broadcast-mode step with N iterable arguments (the items of
\* options.renames, in insertion order) and no explicit mapspec: if
\* 1 <= N <= 18 the k-th iterable is indexed by the k-th symbol of i, j, k,
\* ..., so N distinct symbols are used, and every output is indexed by the
\* comma-joined list of those N symbols in that order; if N > 18 a
\* PipelineBuildError is raised; if N = 0 no mapspec is synthesized.
C20_BroadcastSymbols ==
    BroadcastResolved =>
        LET N == msin.n
            out == msout.out
        IN  /\ N > 18 <=> out.raised = "PipelineBuildError"
            /\ N = 0 => out = NoMapspecOut
            /\ (1 <= N /\ N <= 18) =>
                   /\ out.output_indices = SubSeq(indices, 1, N)
                   /\ Cardinality({out.output_indices[k] : k \in 1..N}) = N
                   /\ \A k \in 1..N :
                          out.input_parts[k] =
                              "s" \o ToString(k) \o "[" \o indices[k] \o "]"
                   /\ Len(out.output_parts) = Len(msout.output_name)
                   /\ \A j \in 1..Len(msout.output_name) :
                          out.output_parts[j] =
                              msout.output_name[j] \o "["
                                  \o Join(SubSeq(indices, 1, N), ",") \o "]"
                   /\ out.mapspec # ""

\* C20 witness: two iterables and a constant, broadcast
C20_Witness ==
    /\ BroadcastResolved
    /\ msin.n = 2
    /\ msin.defaults = <<"c">>
    /\ msout.output_name = <<"out">>
    /\ msout.out.mapspec = "s1[i], s2[j], c -> out[i,j]"


\* a zip-mode step without an explicit mapspec was resolved
ZipResolved ==
    /\ msout.done
    /\ msin.map_mode = "zip"
    /\ msin.mapspec = ""

\* C21: for a zip-mode step with N >= 1 iterable arguments and no explicit
\* mapspec, synthesis raises nothing (also when N > 1), every iterable is
\* indexed by the one symbol i and every output is indexed by that symbol.
C21_ZipSharedIndex ==
    (ZipResolved /\ msin.n >= 1) =>
        LET N == msin.n
            out == msout.out
        IN  /\ out.raised = "none"
            /\ out.mapspec # ""
            /\ out.output_indices = <<"i">>
            /\ Len(out.input_parts) = N
            /\ \A k \in 1..N :
                   out.input_parts[k] = "s" \o ToString(k) \o "[i]"
            /\ Len(out.output_parts) = Len(msout.output_name)
            /\ \A j \in 1..Len(msout.output_name) :
                   out.output_parts[j] = msout.output_name[j] \o "[i]"

\* C21 witness: three iterables and a constant, zipped
C21_Witness ==
    /\ ZipResolved
    /\ msin.n = 3
    /\ msin.defaults = <<"c">>
    /\ msout.output_name = <<"out">>
    /\ msout.out.mapspec = "s1[i], s2[i], s3[i], c -> out[i]"

\* an aggregate-mode step without an explicit mapspec was resolved
AggregateResolved ==
    /\ msout.done
    /\ msin.map_mode = "aggregate"
    /\ msin.mapspec = ""

NoDeclaredOutput == msin.output_name = <<>> /\ msin.produces = <<>>

\* C23: synthesis is skipped (options.mapspec stays unset and nothing is
\* raised) whenever the step has no explicit mapspec and either has no
\* iterable argument or has no declared output name.
C23_SynthesisSkipped ==
    (msout.done /\ msin.mapspec = "" /\ (msin.n = 0 \/ NoDeclaredOutput)) =>
        /\ msout.out.raised = "none"
        /\ msout.out.mapspec = ""


\* C24: when the options already carry a mapspec, resolve_mapspec returns
\* them with exactly that mapspec and raises nothing, whatever the map_mode
\* and the iterable and constant inputs (also those that raise without it:
\* more than 18 iterables in broadcast mode, more than one in aggregate
\* mode); applied again to its own result it returns the same mapspec.
C24_ExplicitMapspecKept ==
    (msout.done /\ msin.mapspec # "") =>
        /\ msout.out.raised = "none"
        /\ msout.out.mapspec = msin.mapspec
        /\ msout.again =>
               /\ msout.out_again.raised = "none"
               /\ msout.out_again.mapspec = msout.out.mapspec

\* C24 witness: an explicit mapspec kept, twice, on inputs that raise
\* without it
C24_Witness ==
    /\ msout.again
    /\ msin.mapspec = "x[i] -> y[i]"
    /\ msout.out_again.mapspec = "x[i] -> y[i]"
    /\ \/ msin.map_mode = "broadcast" /\ msin.n = 19
       \/ msin.map_mode = "aggregate" /\ msin.n = 2


(***************************************************************************)
(* SpecRuns: two runs of one workflow, started concurrently, each in its   *)
(* own coordinator (coordinator.py, lines 80-93).  The runs share the      *)
(* clock and the file system and nothing else.                             *)
(***************************************************************************)
InitRuns ==
    /\ TrackerIdle
    /\ ResolveIdle
    /\ ComponentsIdle
    /\ CoordIdle
    /\ wall = 0
    /\ rpc = [p \in Procs |-> "new"]
    /\ run_ids = NoRuns
    /\ run_dirs = NoRuns
    /\ run_names \in [Procs -> CustomRunNames]
    /\ wf_name \in RunWorkflowNames
    /\ fs = {}
    /\ ResourcesIdle
    /\ ChainIdle

\* a second passes
tick ==
    /\ wall < MaxWall
    /\ wall' = wall + 1
    /\ UNCHANGED <<rpc, run_ids, run_dirs, run_names, wf_name, fs, base_vars, resources_vars, chain_vars>>

\* coordinator.py, lines 80-83: RunStateTracker(run_id=None,
\* custom_run_name=...), outside the try of execute_workflow
RunStateTracker_init(p) ==
    /\ rpc[p] = "new"
    /\ \E u \in Suffixes :
          LET r == generate_unique_id(run_names[p], wall, u)
          IN  IF r.raised = "none"
              THEN /\ run_ids' = [run_ids EXCEPT ![p] = r.id]
                   /\ rpc' = [rpc EXCEPT ![p] = "tracked"]
              ELSE /\ rpc' = [rpc EXCEPT ![p] = r.raised]
                   /\ UNCHANGED run_ids
    /\ UNCHANGED <<wall, run_dirs, run_names, wf_name, fs, base_vars, resources_vars, chain_vars>>

\* setup_run_directories(workflow_name, run_id); ensure (locations.py,
\* lines 54-56) is mkdir(parents=True, exist_ok=True): a directory that
\* exists already is no error
setup_run_directories(p) ==
    /\ rpc[p] = "tracked"
    /\ IF wf_name = "" \/ run_ids[p] = ""                         \* lines 44-51
       THEN /\ rpc' = [rpc EXCEPT ![p] = "RunEnvironmentManagerError"]
            /\ UNCHANGED <<run_dirs, fs>>
       ELSE LET run_dir == RunDir(wf_name, run_ids[p])
            IN  \/ /\ fs' = fs \cup {run_dir, OutputDir(run_dir)}   \* lines 57-62
                   /\ run_dirs' = [run_dirs EXCEPT ![p] = run_dir]
                   /\ rpc' = [rpc EXCEPT ![p] = "ready"]
                \/ /\ rpc' = [rpc EXCEPT ![p] = "RunEnvironmentManagerError"]
                   /\ UNCHANGED <<run_dirs, fs>>                    \* lines 63-66
    /\ UNCHANGED <<wall, run_ids, run_names, wf_name, base_vars, resources_vars, chain_vars>>

NextRuns ==
    \/ tick
    \/ \E p \in Procs : RunStateTracker_init(p)
    \/ \E p \in Procs : setup_run_directories(p)

SpecRuns == InitRuns /\ [][NextRuns]_vars

(***************************************************************************)
(* Claims about concurrent runs, checked under SpecRuns                    *)
(***************************************************************************)
\* C25: two runs of the same workflow, neither with a custom run name, that
\* both set up their run directory have distinct run ids and distinct run
\* directories.
C25_DistinctRunDirs ==
    (/\ \A p \in Procs : rpc[p] = "ready"
     /\ \A p \in Procs : run_names[p] = "") =>
        /\ run_ids["run1"] # run_ids["run2"]
        /\ run_dirs["run1"] # run_dirs["run2"]


(***************************************************************************)
(* Claims about the merge of resolve_inputs, checked under SpecInputs      *)
(***************************************************************************)
\* every item of the dict `seed` is an item of the dict d
Preserved(seed, d) ==
    \A i \in 1..Len(seed) : \E j \in 1..Len(d) : d[j] = seed[i]

\* C26: classifying consumes and params never replaces a pre-seeded entry:
\* every argument name present in the renames or the defaults seeded from
\* the step's inline options keeps its pre-seeded value, and the entries of
\* the other names are added alongside.
C26_SeedPreserved ==
    (iout.done /\ iout.out.raised = "none") =>
        /\ Preserved(iin.seed, iout.out.renames)
        /\ Preserved(iin.seed_defaults, iout.out.defaults)
        /\ DictKeys(iin.consumes) \cup DictKeys(iin.params)
               \subseteq DictKeys(iout.out.renames) \cup DictKeys(iout.out.defaults)


(***************************************************************************)
(* SpecResources: resolve_resources applied once to the resources of a     *)
(* loaded workflow and of one of its steps                                 *)
(***************************************************************************)
InitResources ==
    /\ TrackerIdle
    /\ ResolveIdle
    /\ ComponentsIdle
    /\ CoordIdle
    /\ RunsIdle
    /\ ChainIdle
    /\ resin \in [workflow : {None} \cup ResourcesModels,
                   step : {None} \cup ResourcesModels]
    /\ resout = [done |-> FALSE, out |-> NoResourcesOut]

resolve_resources_call ==
    /\ ~resout.done
    /\ resout' = [done |-> TRUE,
                  out |-> resolve_resources(resin.workflow, resin.step)]
    /\ UNCHANGED <<resin, runs_vars, base_vars, chain_vars>>

NextResources == resolve_resources_call

SpecResources == InitResources /\ [][NextResources]_vars

(***************************************************************************)
(* Claims about resolve_resources, checked under SpecResources             *)
(***************************************************************************)
\* the advanced_options of a Resources model hold a reserved key
HasReservedKey(r) ==
    /\ r # None
    /\ DictKeys(r.advanced_options) \cap reserved_keys # {}

\* the value the named field `key` has: the step's over the workflow's
NamedField(key) ==
    IF resin.step # None /\ resin.step[key] # <<>> THEN resin.step[key]
    ELSE IF resin.workflow # None THEN resin.workflow[key]
    ELSE <<>>

\* C27: merging the resources raises an error whenever the advanced_options
\* of the step's resources or of the workflow's default resources hold the
\* reserved key cpus or memory; and in every resolved resources map cpus
\* and memory are the values of the named fields (the step's over the
\* workflow's), never a value taken from advanced_options.
C27_ReservedKeysRejected ==
    resout.done =>
        /\ (HasReservedKey(resin.step) \/ HasReservedKey(resin.workflow))
               => resout.out.raised # "none"
        /\ resout.out.raised = "none" =>
               \A key \in reserved_keys :
                   IF NamedField(key) = <<>>
                   THEN ~HasKey(resout.out.resources, key)
                   ELSE /\ HasKey(resout.out.resources, key)
                        /\ DictValue(resout.out.resources, key) = NamedField(key)[1]


(***************************************************************************)
(* SpecChain: the options of one step resolved by                          *)
(* _create_pipe_func_from_step, then the pipeline option resolvers of      *)
(* build (builder.py, lines 91-99)                                         *)
(***************************************************************************)
InitChain ==
    /\ TrackerIdle
    /\ ResolveIdle
    /\ ComponentsIdle
    /\ CoordIdle
    /\ RunsIdle
    /\ ResourcesIdle
    /\ sdef \in ChainDefinitions
    /\ heap \in ChainHeaps
    /\ sdef.defaults = "None" => heap["options.defaults"] = <<>>
    /\ sdef.renames = "None" => heap["options.renames"] = <<>>
    /\ final_options = NoFinalOptions
    /\ pipeline_kwargs = <<>>
    /\ cpc = "model_dump"
    /\ cout = "none"

chain_others == <<runs_vars, resources_vars, base_vars>>

\* lines 151-157: an exception of a resolver is re-raised as a
\* PipelineBuildError and ends the chain
ChainRaise ==
    /\ cpc' = "done"
    /\ cout' = "PipelineBuildError"

\* lines 135-137: final_options = step.options.model_dump(exclude_none=True)
dump_options ==
    /\ cpc = "model_dump"
    /\ final_options' =
          [NoFinalOptions EXCEPT
              !.defaults = IF sdef.defaults = "None" THEN "None"
                           ELSE DumpRef("defaults"),
              !.renames = IF sdef.renames = "None" THEN "None"
                          ELSE DumpRef("renames"),
              !.scope = sdef.scope]
    /\ heap' = [id \in ObjIds |->
                   IF sdef.defaults # "None" /\ id = DumpRef("defaults")
                   THEN heap[sdef.defaults]
                   ELSE IF sdef.renames # "None" /\ id = DumpRef("renames")
                   THEN heap[sdef.renames]
                   ELSE heap[id]]
    /\ cpc' = "resolve_function_path"
    /\ UNCHANGED <<sdef, pipeline_kwargs, cout, chain_others>>

\* resolvers.py, lines 19-66
chain_resolve_function_path ==
    /\ cpc = "resolve_function_path"
    /\ IF resolve_function_path(sdef, sdef.default_module) = "ok"
       THEN /\ final_options' = [final_options EXCEPT !.func = "callable"]
            /\ cpc' = "resolve_input_renames"
            /\ UNCHANGED cout
       ELSE ChainRaise /\ UNCHANGED final_options
    /\ UNCHANGED <<heap, sdef, pipeline_kwargs, chain_others>>

\* resolvers.py, lines 69-96
chain_resolve_input_renames ==
    /\ cpc = "resolve_input_renames"
    /\ IF InputsRaise(sdef.inputs)
       THEN ChainRaise /\ UNCHANGED <<heap, final_options>>
       ELSE LET renames == GlobalRenames(sdef.inputs)
            IN  /\ cpc' = "resolve_input_defaults"
                /\ UNCHANGED cout
                /\ IF Len(renames) = 0                               \* line 92
                   THEN UNCHANGED <<heap, final_options>>
                   ELSE /\ heap' = [heap EXCEPT !["new.renames"] =   \* lines 93-96
                               IF final_options.renames = "None" THEN renames
                               ELSE DictMerge(heap[final_options.renames], renames)]
                        /\ final_options' =
                               [final_options EXCEPT !.renames = "new.renames"]
    /\ UNCHANGED <<sdef, pipeline_kwargs, chain_others>>

\* resolvers.py, lines 99-118: the dict options["defaults"] refers to is
\* written in place
chain_resolve_input_defaults ==
    /\ cpc = "resolve_input_defaults"
    /\ LET parameters == heap[sdef.parameters]
           current_defaults == IF final_options.defaults = "None"  \* lines 110-113
                               THEN "new.defaults"
                               ELSE final_options.defaults
       IN  IF Len(parameters) = 0                                  \* line 109
           THEN UNCHANGED <<heap, final_options>>
           ELSE /\ heap' = [heap EXCEPT ![current_defaults] =
                               AddMissing(IF final_options.defaults = "None"
                                          THEN <<>> ELSE heap[current_defaults],
                                          parameters)]
                /\ final_options' =
                       [final_options EXCEPT !.defaults = current_defaults]
    /\ cpc' = "resolve_resources"
    /\ UNCHANGED <<sdef, pipeline_kwargs, cout, chain_others>>

\* resolvers.py, lines 121-159
chain_resolve_resources ==
    /\ cpc = "resolve_resources"
    /\ final_options' =
          [final_options EXCEPT !.resources =
              resolve_resources(sdef.default_resources, sdef.resources).resources]
    /\ cpc' = "resolve_step_scope"
    /\ UNCHANGED <<heap, sdef, pipeline_kwargs, cout, chain_others>>

\* resolvers.py, lines 162-172
chain_resolve_step_scope ==
    /\ cpc = "resolve_step_scope"
    /\ final_options' = [final_options EXCEPT !.scope = sdef.scope]
    /\ cpc' = "PipeFunc"
    /\ UNCHANGED <<heap, sdef, pipeline_kwargs, cout, chain_others>>

\* builder.py, lines 159-179: pipefunc.PipeFunc(**final_options), what it
\* raises re-raised as a PipelineBuildError
chain_PipeFunc ==
    /\ cpc = "PipeFunc"
    /\ \/ cpc' = "pipeline_options" /\ UNCHANGED cout
       \/ ChainRaise
    /\ UNCHANGED <<heap, sdef, final_options, pipeline_kwargs, chain_others>>

\* builder.py, lines 91-99, with resolvers.py, lines 180-237:
\* resolve_general_pipeline_options, resolve_pipeline_global_scope and
\* resolve_pipeline_default_resources fill pipeline_kwargs from dumps of
\* workflow.spec.options
chain_pipeline_options ==
    /\ cpc = "pipeline_options"
    /\ pipeline_kwargs' =
          (IF sdef.workflow_scope = <<>> THEN <<>>
           ELSE <<Item("scope", sdef.workflow_scope[1])>>)
          \o (IF sdef.default_resources = None THEN <<>>
              ELSE <<Item("default_resources", "dump")>>)
    /\ cpc' = "done"
    /\ UNCHANGED <<heap, sdef, final_options, cout, chain_others>>

NextChain ==
    \/ dump_options
    \/ chain_resolve_function_path
    \/ chain_resolve_input_renames
    \/ chain_resolve_input_defaults
    \/ chain_resolve_resources
    \/ chain_resolve_step_scope
    \/ chain_PipeFunc
    \/ chain_pipeline_options

SpecChain == InitChain /\ [][NextChain]_vars

Final(s) == s # None /\ s.status \in Terminal /\ s.end_time # NoneTime

Invoked(stage) == \E i \in 1..Len(invoked) : invoked[i] = stage

\* a summary whose manifest is empty and whose user and resolved inputs are
\* the ones load_params and resolve_params recorded
KeepsRecorded(s) ==
    /\ s # None
    /\ s.persisted_outputs = EmptyDict
    /\ s.user_inputs = raw_user_inputs
    /\ s.resolved_inputs = resolved_inputs

\* C30: if the execute stage raises, persist_artifacts is never invoked in
\* that run, and the summary that is persisted (the one handed to save, and
\* summary.json once written) has an empty persisted_outputs manifest while
\* its user_inputs and resolved_inputs are the values recorded before
\* execute.
C30_ExecuteFailureKeepsParams ==
    failed_stage = "execute" =>
        /\ ~Invoked("persist_artifacts")
        /\ KeepsRecorded(summary_data)
        /\ \A i \in 1..Len(save_log) : KeepsRecorded(save_log[i].summary)
        /\ disk # None => KeepsRecorded(disk)
        /\ Done => Len(save_log) = 1

\* C30 witness: execute raised in a run that had recorded user and resolved
\* inputs, and the failed summary was written with them and with no outputs
C30_Witness ==
    /\ Done
    /\ failed_stage = "execute"
    /\ raw_user_inputs # EmptyDict
    /\ resolved_inputs # EmptyDict
    /\ disk # None
    /\ disk.status = FAILED
    /\ disk.user_inputs = raw_user_inputs
    /\ disk.resolved_inputs = resolved_inputs
    /\ disk.persisted_outputs = EmptyDict

====
